---- MODULE Spec2Model ----
(***************************************************************************)
(* Model of the channel-mode pipeline of main.py: the ingestion ledger     *)
(* (load_processed / save_processed on processed_videos.json) and the      *)
(* per-item orchestrator (main's loops and process_video).                 *)
(*                                                                         *)
(* A Python str is a sequence of one-character strings, so that iterating  *)
(* a str, and JSON string escaping, are what they are in the code.         *)
(***************************************************************************)
EXTENDS Integers, Sequences, FiniteSets, TLC

VARIABLES
    store,        \* processed_videos.json on disk (PROCESSED_STORE)
    processed,    \* main's in-memory ledger: the set load_processed returned, grown by process_video
    pc,           \* position of the running code
    run,          \* number of channel-mode runs of main() started so far
    ci,           \* main: index of the current channel in Channels
    videos,       \* main: the list discovery returned for the current channel
    vi,           \* main: index of the current video in videos
    cur,          \* process_video: video.video_id of the item being (or last) processed
    outcome,      \* how process_video ended for cur ("running" while inside it)
    calls,        \* history: the collaborator calls process_video made for cur, in order
    appended,     \* local artifact store: the files ("transcript", "summary") process_video appended to for cur
    loaded,       \* history: what load_processed returned at the start of the current run
    sentNow,      \* history: ids send_video_summary returned True for in the current run
    sentBefore,   \* history: ids send_video_summary returned True for in earlier runs
    failedNow,    \* history: ids send_video_summary returned False for in the current run
    failedPrev,   \* history: ids whose delivery failed in an earlier run, no delivery attempted in a later run yet
    owedPrev,     \* history: as failedPrev, less the ids delivered successfully after the failure
    attempted,    \* history: channel indexes whose discovery was called in the current run, in order
    discErr,      \* history: channel indexes whose discovery raised in the current run
    pending,      \* history: items discovery returned in the current run and process_video was not called for yet
    aborted,      \* the current run left the loops by an exception main's handlers do not catch
    saveCalls,    \* history: number of save_processed calls in the current run
    savedArg,     \* history: the set handed to the last save_processed call
    saveResult,   \* history: how the last save_processed call went
    saveFailed,   \* history: some save_processed call did not write the file
    cfgErr,       \* why the last start of main() ended in its configuration checks ("none": it did not)
    exitCode,     \* the exit status the last start of main() ended with by SystemExit or an uncaught exception, -1 if none
    loadCalls,    \* history: number of load_processed calls of the last run
    title,        \* send_video_summary: its argument title
    url,          \* send_video_summary: its argument url
    summary,      \* send_video_summary: its argument summary
    remaining,    \* send_video_summary: the part of summary not cut into chunks yet
    msgs,         \* history: the messages send_message posted for this call, in order
    ret,          \* what send_video_summary returned ("none": it has not returned)
    header_lines, \* summary_markdown_to_html_doc: its argument header_lines
    txt,          \* what summary_markdown_to_pretty_txt returned for summary
    txt2,         \* what summary_markdown_to_pretty_txt returned for txt
    html,         \* what summary_markdown_to_html_doc returned for summary, title and header_lines
    txt_tables,   \* summary_markdown_to_pretty_txt: the normalized rows of each table block it rendered
    html_tables,  \* summary_markdown_to_html_doc: the normalized rows of each table block it rendered
    upstream,     \* get_todays_videos: the items of the response of the search API
    cell,         \* _wrap_text: its argument s
    wrap_width,   \* _wrap_text: its argument max_width
    wrapped,      \* what _wrap_text returned for cell and wrap_width
    video_arg,    \* main: args.video, each item split at its commas
    single_ids,   \* main: the list video_ids of single-video mode
    single_calls, \* history: the ids run_single_video was called with, in order
    single_sent   \* history: the ids send_video_summary returned True for in single-video mode, in order

vars == <<store, processed, pc, run, ci, videos, vi, cur, outcome, calls, appended,
          loaded, sentNow, sentBefore, failedNow, failedPrev, owedPrev, attempted,
          discErr, pending, aborted, saveCalls, savedArg, saveResult,
          saveFailed, cfgErr, exitCode, loadCalls, title, url, summary, remaining,
          msgs, ret, header_lines, txt, txt2, html, txt_tables, html_tables,
          upstream, cell, wrap_width, wrapped, video_arg, single_ids, single_calls,
          single_sent>>

Range(s) == {s[i] : i \in DOMAIN s}

(***************************************************************************)
(* Bounds of the model.                                                    *)
(***************************************************************************)
MaxRuns == 2       \* runs of main() in one behaviour
MaxVideos == 2     \* length of the list one discovery call returns
MaxIdLen == 2      \* length of an identifier in the ledger round trip

(***************************************************************************)
(* JSON text of a str, as json.dump (ensure_ascii) writes it and json.load *)
(* reads it back. The modelled alphabet has the characters json escapes    *)
(* with a backslash pair; \uXXXX escapes are outside it.                   *)
(***************************************************************************)
EscapeChar(c) ==
    CASE c = "\"" -> <<"\\", "\"">>
      [] c = "\\" -> <<"\\", "\\">>
      [] c = "\n" -> <<"\\", "n">>
      [] OTHER -> <<c>>

\* JsonEscape gone wrong: the characters are written as they are.
JsonEscapeRaw(s) == s

RECURSIVE JsonEscape(_)
JsonEscape(s) ==
    IF s = <<>> THEN <<>> ELSE EscapeChar(Head(s)) \o JsonEscape(Tail(s))

\* The body of a JSON string literal decoded: [ok, s]; ok is FALSE where
\* json.load raises JSONDecodeError (bad escape, raw quote or control character).
RECURSIVE JsonUnescape(_)
JsonUnescape(t) ==
    IF t = <<>> THEN [ok |-> TRUE, s |-> <<>>]
    ELSE IF Head(t) = "\\"
         THEN IF Len(t) < 2 THEN [ok |-> FALSE, s |-> <<>>]
              ELSE LET e == t[2]
                       rest == JsonUnescape(SubSeq(t, 3, Len(t)))
                       c == CASE e = "\"" -> "\""
                              [] e = "\\" -> "\\"
                              [] e = "n" -> "\n"
                              [] OTHER -> "?"
                   IN  IF e \in {"\"", "\\", "n"} /\ rest.ok
                       THEN [ok |-> TRUE, s |-> <<c>> \o rest.s]
                       ELSE [ok |-> FALSE, s |-> <<>>]
         ELSE IF Head(t) \in {"\"", "\n"} THEN [ok |-> FALSE, s |-> <<>>]
              ELSE LET rest == JsonUnescape(Tail(t))
                   IN  IF rest.ok THEN [ok |-> TRUE, s |-> <<Head(t)>> \o rest.s]
                       ELSE [ok |-> FALSE, s |-> <<>>]

(***************************************************************************)
(* The ledger file. k: "missing" (no file), "garbage" (text json.load      *)
(* rejects: empty, truncated), "json" (a JSON document). For a document,   *)
(* top is the type of the top-level value; for an object, vt is the type   *)
(* of the value under "video_ids" ("absent": no such key) and items holds  *)
(* the string literals of that value as written in the file: the elements  *)
(* of a list, the keys of an object, the one literal of a string. unhash   *)
(* says that a list also holds an element Python cannot hash (a nested     *)
(* list or object).                                                        *)
(***************************************************************************)
File(k, top, vt, items, unhash) ==
    [k |-> k, top |-> top, vt |-> vt, items |-> items, unhash |-> unhash]

Missing == File("missing", "none", "absent", <<>>, FALSE)
Garbage == File("garbage", "none", "absent", <<>>, FALSE)

\* What json.dump({"video_ids": list(video_ids)}, f, indent=2) writes for the
\* list order.
LedgerFile(order) ==
    File("json", "obj", "list", [i \in DOMAIN order |-> JsonEscape(order[i])], FALSE)

\* list(video_ids): a set has no order of its own, any order can come out.
Orderings(S) == {o \in [1..Cardinality(S) -> S] : Range(o) = S}

\* Whether every string literal of the document decodes.
LiteralsOk(f) == \A i \in DOMAIN f.items : JsonUnescape(f.items[i]).ok

Decoded(f) == [i \in DOMAIN f.items |-> JsonUnescape(f.items[i]).s]

\* set(x) for the value x = data.get("video_ids") or []: the elements Python
\* iterates over. Iterating a str yields its characters, iterating a dict its keys.
IterSet(f) ==
    CASE f.vt = "list" -> Range(Decoded(f))
      [] f.vt = "obj" -> Range(Decoded(f))
      [] f.vt = "str" -> {<<c>> : c \in Range(Decoded(f)[1])}
      [] OTHER -> {}

\* load_processed(): the set it returns for the file f. Every exception inside
\* the try block ends in "return set()".
LoadProcessed(f) ==
    IF f.k = "missing" THEN {}                       \* not PROCESSED_STORE.exists()
    ELSE IF f.k = "garbage" \/ ~LiteralsOk(f) THEN {} \* json.load raises
    ELSE IF f.top # "obj" THEN {}                    \* data.get: AttributeError
    ELSE IF f.vt \in {"absent", "null"} THEN {}      \* None or [] is []
    ELSE IF f.vt = "num" THEN {}                     \* 0 or [] is []; set(5): TypeError
    ELSE IF f.vt = "list" /\ f.unhash THEN {}        \* set([[...]]): TypeError
    ELSE IterSet(f)

\* save_processed(video_ids): open(PROCESSED_STORE, "w") truncates the file,
\* json.dump then writes it. "open_failed": open raises, the file is as it was.
\* "write_failed": the write raises after the truncation, the file holds an
\* incomplete document. Either exception is logged and swallowed.
SaveResults == {"ok", "open_failed", "write_failed"}

FileAfterSave(res, order) ==
    CASE res = "ok" -> LedgerFile(order)
      [] res = "open_failed" -> store
      [] res = "write_failed" -> Garbage

SaveProcessed(video_ids) ==
    \E res \in SaveResults : \E order \in Orderings(video_ids) :
        /\ store' = FileAfterSave(res, order)
        /\ saveResult' = res
        /\ saveFailed' = (saveFailed \/ res # "ok")
        /\ savedArg' = video_ids
        /\ saveCalls' = saveCalls + 1

(***************************************************************************)
(* Channel mode of main() and process_video.                               *)
(***************************************************************************)
\* YOUTUBE_CHANNELS after splitting: the configured channels, in order.
Channels == <<"@one", "@two">>

\* The video ids discovery can return. A VideoResult is modelled by its
\* video_id: url is built from it, title takes no part in the control flow.
Ids == {<<"a">>, <<"b">>}
NoId == <<>>

\* What one discovery call can return: any list, repeated ids included
\* (youtube_channel.get_todays_videos does not deduplicate).
VideoLists == UNION {[1..n -> Ids] : n \in 0..MaxVideos}

\* The ledger files a first run can find.
InitStores == {Missing, Garbage, LedgerFile(<<>>), LedgerFile(<<<<"a">>>>)}

LoopPcs == {"channel", "item", "transcript", "metadata", "summarize", "savesummary", "deliver"}
ItemPcs == {"transcript", "metadata", "summarize", "savesummary", "deliver"}
FailureOutcomes == {"no_transcript", "no_summary", "error", "failed"}

\* The state before main() runs, the ledger file apart.
InitRest ==
    /\ processed = {}
    /\ pc = "idle"
    /\ run = 0
    /\ ci = 1
    /\ videos = <<>>
    /\ vi = 1
    /\ cur = NoId
    /\ outcome = "none"
    /\ calls = <<>>
    /\ appended = {}
    /\ loaded = {}
    /\ sentNow = {}
    /\ sentBefore = {}
    /\ failedNow = {}
    /\ failedPrev = {}
    /\ owedPrev = {}
    /\ attempted = <<>>
    /\ discErr = {}
    /\ pending = 0
    /\ aborted = FALSE
    /\ saveCalls = 0
    /\ savedArg = {}
    /\ saveResult = "none"
    /\ saveFailed = FALSE
    /\ cfgErr = "none"
    /\ exitCode = -1
    /\ loadCalls = 0
    /\ video_arg = <<>>
    /\ single_ids = <<>>
    /\ single_calls = <<>>
    /\ single_sent = <<>>

\* The variables of the specifications of single functions.
sendVars == <<url, remaining, msgs, ret>>
renderVars == <<header_lines, txt, txt2, html, txt_tables, html_tables>>
wrapVars == <<cell, wrap_width, wrapped>>
fnVars == <<title, summary, sendVars, renderVars, upstream, wrapVars>>

\* No call of those functions is under way.
InitFn ==
    /\ title = <<>>
    /\ url = <<>>
    /\ summary = <<>>
    /\ remaining = <<>>
    /\ msgs = <<>>
    /\ ret = "none"
    /\ header_lines = <<>>
    /\ txt = <<>>
    /\ txt2 = <<>>
    /\ html = <<>>
    /\ txt_tables = <<>>
    /\ html_tables = <<>>
    /\ upstream = <<>>
    /\ cell = <<>>
    /\ wrap_width = 0
    /\ wrapped = <<>>

Init ==
    /\ store \in InitStores
    /\ InitRest
    /\ InitFn

itemVars == <<cur, outcome, calls>>
histVars == <<sentNow, sentBefore, failedNow, failedPrev, owedPrev>>
runVars == <<attempted, discErr, pending, aborted>>
saveVars == <<saveCalls, savedArg, saveResult, saveFailed>>
cfgVars == <<cfgErr, exitCode, loadCalls>>
singleVars == <<video_arg, single_ids, single_calls, single_sent>>

\* What os.environ.get returns for a key: None, an empty string, a value.
EnvValues == {"unset", "", "k"}

\* YOUTUBE_CHANNELS split at its commas: unset or empty, blanks only, the
\* configured channels.
ChannelsRaw == {<<"">>, <<" ", "">>, <<" @one", "@two ">>}

\* The environment main() reads in channel mode (no --video argument).
Envs ==
    [gemini_key : EnvValues, telegram_token : EnvValues, telegram_chat_id : EnvValues,
     youtube_key : EnvValues, brave_key : EnvValues, channels_raw : ChannelsRaw]

\* Python's truth value of an os.environ.get result.
Truthy(v) == v \notin {"unset", ""}

\* c.strip() for the entries of ChannelsRaw.
Strip(c) ==
    CASE c = " @one" -> "@one"
      [] c = "@two " -> "@two"
      [] c = " " -> ""
      [] OTHER -> c

\* channels = [c.strip() for c in channels_raw.split(",") if c.strip()]
RECURSIVE ParseChannels(_)
ParseChannels(raw) ==
    IF raw = <<>> THEN <<>>
    ELSE IF Strip(Head(raw)) = "" THEN ParseChannels(Tail(raw))
         ELSE <<Strip(Head(raw))>> \o ParseChannels(Tail(raw))

\* main()'s configuration checks in channel mode, in the order of the code:
\* the first that fails, "ok" if none does.
ConfigCheck(e) ==
    IF ~(Truthy(e.gemini_key) /\ Truthy(e.telegram_token) /\ Truthy(e.telegram_chat_id))
    THEN "missing_credential"
    ELSE IF ~Truthy(e.youtube_key) /\ ~Truthy(e.brave_key) THEN "no_discovery_key"
    ELSE IF ParseChannels(e.channels_raw) = <<>> THEN "no_channels"
    ELSE "ok"

\* The environments whose checks pass; their channel list is Channels.
ValidEnvs == {e \in Envs : ConfigCheck(e) = "ok" /\ ParseChannels(e.channels_raw) = Channels}

\* The checks that fail for some environment.
ConfigErrors == {ConfigCheck(e) : e \in Envs} \ {"ok"}

\* OnConfigError gone wrong: the error is logged and main returns.
OnConfigErrorReturns ==
    /\ pc' = "exited"
    /\ exitCode' = 0

\* logger.error(...); raise SystemExit(1)
OnConfigError ==
    /\ pc' = "exited"
    /\ exitCode' = 1

\* main() is started with an environment one of its checks rejects: it exits
\* before load_processed() and the try block.
ConfigExit ==
    /\ pc \in {"idle", "done", "exited"}
    /\ \E reason \in ConfigErrors : cfgErr' = reason
    /\ OnConfigError
    /\ UNCHANGED <<store, processed, run, ci, videos, vi, appended, loaded, loadCalls>>
    /\ UNCHANGED <<itemVars, histVars, runVars, saveVars, fnVars, singleVars>>

\* main() up to the try: the configuration is valid, processed = load_processed().
MainStart ==
    /\ pc \in {"idle", "done", "exited"}
    /\ run < MaxRuns
    /\ ValidEnvs # {}
    /\ cfgErr' = "none"
    /\ exitCode' = -1
    /\ loadCalls' = 1
    /\ run' = run + 1
    /\ processed' = LoadProcessed(store)
    /\ loaded' = LoadProcessed(store)
    /\ pc' = "channel"
    /\ ci' = 1
    /\ videos' = <<>>
    /\ vi' = 1
    /\ cur' = NoId
    /\ outcome' = "none"
    /\ calls' = <<>>
    /\ sentBefore' = sentBefore \cup sentNow
    /\ sentNow' = {}
    /\ failedPrev' = failedPrev \cup failedNow
    /\ owedPrev' = owedPrev \cup (failedNow \ sentNow)
    /\ failedNow' = {}
    /\ attempted' = <<>>
    /\ discErr' = {}
    /\ pending' = 0
    /\ aborted' = FALSE
    /\ saveCalls' = 0
    /\ saveResult' = "none"
    /\ savedArg' = {}
    /\ appended' = {}
    /\ UNCHANGED <<store, saveFailed, fnVars, singleVars>>

\* OnDiscoveryError gone wrong: no try/except around the discovery call.
OnDiscoveryErrorPropagates ==
    /\ pc' = "finally"
    /\ aborted' = TRUE
    /\ UNCHANGED ci

\* except Exception around get_todays_videos: log, continue with the next channel.
OnDiscoveryError ==
    /\ pc' = "channel"
    /\ ci' = ci + 1
    /\ UNCHANGED aborted

\* for channel in channels: the discovery call raises.
DiscoverRaises ==
    /\ pc = "channel"
    /\ ci <= Len(Channels)
    /\ attempted' = Append(attempted, ci)
    /\ discErr' = discErr \cup {ci}
    /\ OnDiscoveryError
    /\ UNCHANGED <<store, processed, run, videos, vi, appended, loaded, pending>>
    /\ UNCHANGED <<itemVars, histVars, saveVars>>
    /\ UNCHANGED <<cfgVars, fnVars, singleVars>>

\* for channel in channels: the discovery call returns vs; "if not videos: continue".
DiscoverReturns ==
    /\ pc = "channel"
    /\ ci <= Len(Channels)
    /\ \E vs \in VideoLists :
        /\ attempted' = Append(attempted, ci)
        /\ pending' = pending + Len(vs)
        /\ IF vs = <<>>
           THEN /\ ci' = ci + 1
                /\ UNCHANGED <<pc, videos, vi>>
           ELSE /\ videos' = vs
                /\ vi' = 1
                /\ pc' = "item"
                /\ UNCHANGED ci
    /\ UNCHANGED <<store, processed, run, appended, loaded, discErr, aborted>>
    /\ UNCHANGED <<itemVars, histVars, saveVars>>
    /\ UNCHANGED <<cfgVars, fnVars, singleVars>>

\* The loops are left: their variables, and process_video's, are out of use.
DropLocals ==
    /\ ci' = 1
    /\ videos' = <<>>
    /\ vi' = 1
    /\ cur' = NoId
    /\ calls' = <<>>
    /\ appended' = {}

\* The channel loop is exhausted: control reaches the finally clause.
LoopDone ==
    /\ pc = "channel"
    /\ ci > Len(Channels)
    /\ pc' = "finally"
    /\ outcome' = "none"
    /\ DropLocals
    /\ UNCHANGED <<store, processed, run, loaded>>
    /\ UNCHANGED <<histVars, runVars, saveVars>>
    /\ UNCHANGED <<cfgVars, fnVars, singleVars>>

\* for video in videos: on to the next video, or to the next channel after the last.
NextItem ==
    IF vi < Len(videos)
    THEN /\ vi' = vi + 1
         /\ pc' = "item"
         /\ UNCHANGED ci
    ELSE /\ vi' = vi + 1
         /\ pc' = "channel"
         /\ ci' = ci + 1

\* process_video returns (or raises into main's handler) with outcome o.
Finish(o) ==
    /\ outcome' = o
    /\ NextItem
    /\ UNCHANGED aborted

\* OnItemError gone wrong: no try/except around process_video.
OnItemErrorPropagates ==
    /\ outcome' = "error"
    /\ pc' = "finally"
    /\ aborted' = TRUE
    /\ UNCHANGED <<ci, vi>>

\* except Exception around process_video: log, continue with the next video.
OnItemError == Finish("error")

\* AlreadyProcessed gone wrong: the ledger is not consulted.
AlreadyProcessedNever(id) == FALSE

\* if video.video_id in processed
AlreadyProcessed(id) == id \in processed

\* process_video is called for videos[vi]: the ledger check.
ProcessVideoEntry ==
    /\ pc = "item"
    /\ cur' = videos[vi]
    /\ calls' = <<>>
    /\ pending' = pending - 1
    /\ appended' = {}
    /\ IF AlreadyProcessed(videos[vi])
       THEN Finish("skipped")
       ELSE /\ outcome' = "running"
            /\ pc' = "transcript"
            /\ UNCHANGED <<ci, vi, aborted>>
    /\ UNCHANGED <<store, processed, run, videos, loaded, attempted, discErr>>
    /\ UNCHANGED <<histVars, saveVars>>
    /\ UNCHANGED <<cfgVars, fnVars, singleVars>>

\* transcript = get_transcript(video.video_id); "if not transcript: return".
GetTranscript ==
    /\ pc = "transcript"
    /\ calls' = Append(calls, "get_transcript")
    /\ \/ /\ pc' = "metadata"
          /\ UNCHANGED <<outcome, ci, vi, aborted>>
       \/ Finish("no_transcript")
       \/ OnItemError
    /\ UNCHANGED <<store, processed, run, videos, cur, appended, loaded, attempted, discErr,
                   pending>>
    /\ UNCHANGED <<histVars, saveVars>>
    /\ UNCHANGED <<cfgVars, fnVars, singleVars>>

\* The artifact function returns to process_video, which goes on at nxt.
ArtifactReturns(nxt) ==
    /\ pc' = nxt
    /\ UNCHANGED <<outcome, ci, vi, aborted>>

\* OnWriteError gone wrong: no try/except around mkdir, open and write; the
\* exception leaves the artifact function and ends the item in main's handler.
OnWriteErrorPropagates(nxt) == Finish("error")

\* except Exception in save_transcript_local / save_summary_local: log a
\* warning, return None.
OnWriteError(nxt) == ArtifactReturns(nxt)

\* _fetch_video_metadata (every failure caught inside) and save_transcript_local:
\* the append succeeds, or fails and is logged.
SaveTranscriptLocal ==
    /\ pc = "metadata"
    /\ calls' = calls \o <<"fetch_video_metadata", "save_transcript_local">>
    /\ \E written \in BOOLEAN :
        IF written
        THEN appended' = appended \cup {"transcript"} /\ ArtifactReturns("summarize")
        ELSE appended' = appended /\ OnWriteError("summarize")
    /\ UNCHANGED <<store, processed, run, videos, cur, loaded, attempted, discErr, pending>>
    /\ UNCHANGED <<histVars, saveVars>>
    /\ UNCHANGED <<cfgVars, fnVars, singleVars>>

\* OnNoSummary gone wrong: the warning is logged but process_video does not
\* return.
OnNoSummaryGoesOn ==
    /\ outcome' = "no_summary"
    /\ pc' = "savesummary"
    /\ UNCHANGED <<ci, vi, aborted>>

\* "if not summary": log a warning, return.
OnNoSummary == Finish("no_summary")

\* summary = summarize_transcript(...); "if not summary: return".
Summarize ==
    /\ pc = "summarize"
    /\ calls' = Append(calls, "summarize_transcript")
    /\ \/ /\ pc' = "savesummary"
          /\ UNCHANGED <<outcome, ci, vi, aborted>>
       \/ OnNoSummary
       \/ OnItemError
    /\ UNCHANGED <<store, processed, run, videos, cur, appended, loaded, attempted, discErr,
                   pending>>
    /\ UNCHANGED <<histVars, saveVars>>
    /\ UNCHANGED <<cfgVars, fnVars, singleVars>>

\* save_summary_local: the append succeeds, or fails and is logged.
SaveSummaryLocal ==
    /\ pc = "savesummary"
    /\ calls' = Append(calls, "save_summary_local")
    /\ \E written \in BOOLEAN :
        IF written
        THEN appended' = appended \cup {"summary"} /\ ArtifactReturns("deliver")
        ELSE appended' = appended /\ OnWriteError("deliver")
    /\ UNCHANGED <<store, processed, run, videos, cur, loaded, attempted, discErr, pending>>
    /\ UNCHANGED <<histVars, saveVars>>
    /\ UNCHANGED <<cfgVars, fnVars, singleVars>>

\* LedgerAfterDelivery gone wrong: the identifier is recorded whatever
\* send_video_summary returned.
LedgerAfterDeliveryAlways(ok, id) == processed \cup {id}

\* LedgerAfterDelivery gone wrong: the identifier is never recorded.
LedgerAfterDeliveryNever(ok, id) == processed

\* LedgerAfterDelivery gone wrong: recording the identifier drops the others.
LedgerAfterDeliveryForgets(ok, id) == IF ok THEN {id} ELSE processed

\* if send_video_summary(...): processed.add(video.video_id)
LedgerAfterDelivery(ok, id) == IF ok THEN processed \cup {id} ELSE processed

\* OnDeliveryFailed gone wrong: a failed delivery is tried again at once.
OnDeliveryFailedRetries ==
    /\ pc' = "deliver"
    /\ UNCHANGED <<outcome, ci, vi, aborted>>

\* send_video_summary returned False: log a warning, process_video returns.
OnDeliveryFailed == Finish("failed")

\* send_video_summary returns True or False (it catches the transport's errors).
Deliver ==
    /\ pc = "deliver"
    /\ calls' = Append(calls, "send_video_summary")
    /\ \E ok \in BOOLEAN :
        /\ processed' = LedgerAfterDelivery(ok, cur)
        /\ sentNow' = IF ok THEN sentNow \cup {cur} ELSE sentNow
        /\ failedNow' = IF ok THEN failedNow ELSE failedNow \cup {cur}
        /\ IF ok THEN Finish("delivered") ELSE OnDeliveryFailed
    /\ failedPrev' = failedPrev \ {cur}
    /\ owedPrev' = owedPrev \ {cur}
    /\ UNCHANGED <<store, run, videos, cur, appended, loaded, sentBefore, attempted, discErr,
                   pending>>
    /\ UNCHANGED saveVars
    /\ UNCHANGED <<cfgVars, fnVars, singleVars>>

\* Unwind gone wrong: no finally clause, the exception leaves main at once.
UnwindNoFinally == pc' = "done"

\* An exception leaving the try block runs the finally clause.
Unwind == pc' = "finally"

\* An exception that "except Exception" does not catch (KeyboardInterrupt,
\* SystemExit) is raised somewhere inside the loops.
Abort ==
    /\ pc \in LoopPcs
    /\ Unwind
    /\ aborted' = TRUE
    /\ outcome' = "none"
    /\ DropLocals
    /\ UNCHANGED <<store, processed, run, loaded>>
    /\ UNCHANGED <<histVars, attempted, discErr, pending, saveVars>>
    /\ UNCHANGED <<cfgVars, fnVars, singleVars>>

\* finally: save_processed(processed); then main returns or the exception goes on.
Finally ==
    /\ pc = "finally"
    /\ SaveProcessed(processed)
    /\ pc' = "done"
    /\ UNCHANGED <<processed, run, ci, videos, vi, appended, loaded>>
    /\ UNCHANGED <<itemVars, histVars, runVars>>
    /\ UNCHANGED <<cfgVars, fnVars, singleVars>>

Next ==
    \/ MainStart
    \/ ConfigExit
    \/ DiscoverRaises
    \/ DiscoverReturns
    \/ LoopDone
    \/ ProcessVideoEntry
    \/ GetTranscript
    \/ SaveTranscriptLocal
    \/ Summarize
    \/ SaveSummaryLocal
    \/ Deliver
    \/ Abort
    \/ Finally

Spec == Init /\ [][Next]_vars

(***************************************************************************)
(* The ledger's two functions on their own: load_processed() on any file,  *)
(* and save_processed(S) followed by load_processed().                     *)
(***************************************************************************)
\* The characters of the identifiers saved: one json leaves alone and the
\* three it escapes.
LedgerChars == {"n", "\"", "\\", "\n"}

LedgerStrings == UNION {[1..n -> LedgerChars] : n \in 0..MaxIdLen}

\* The sets handed to save_processed: the empty set, one and two identifiers.
LedgerSets == {{}} \cup {{x, y} : x, y \in LedgerStrings}

\* String literals a hand-made or damaged file can hold: "", "n", "\n", "\\"
\* and the invalid "\".
SampleLiterals == {<<>>, <<"n">>, <<"\\", "n">>, <<"\\", "\\">>, <<"\\">>}

SampleLists == UNION {[1..n -> SampleLiterals] : n \in 0..2}

\* The files load_processed can find: none, unreadable text, a document whose
\* top-level value is no object, and objects with every type under "video_ids".
LedgerInitStores ==
    {Missing, Garbage}
    \cup {File("json", top, "absent", <<>>, FALSE) : top \in {"list", "str", "num", "null", "obj"}}
    \cup {File("json", "obj", vt, <<>>, FALSE) : vt \in {"null", "num"}}
    \cup {File("json", "obj", "str", <<lit>>, FALSE) : lit \in SampleLiterals}
    \cup {File("json", "obj", "obj", keys, FALSE) : keys \in SampleLists}
    \cup {File("json", "obj", "list", items, unhash) : items \in SampleLists, unhash \in BOOLEAN}

InitLedger ==
    /\ store \in LedgerInitStores
    /\ InitRest
    /\ InitFn

ledgerRest == <<run, ci, videos, vi, cur, outcome, calls, appended, sentNow, sentBefore,
                failedNow, failedPrev, owedPrev, attempted, discErr, pending, aborted,
                cfgErr, exitCode, loadCalls, fnVars, singleVars>>

\* save_processed(S) for a set S of identifiers.
LedgerSave ==
    /\ pc = "idle"
    /\ \E S \in LedgerSets : SaveProcessed(S)
    /\ pc' = "saved"
    /\ UNCHANGED <<processed, loaded, ledgerRest>>

\* load_processed(), on the file as found ("loaded") or after a save ("reloaded").
LedgerLoad ==
    /\ pc \in {"idle", "saved"}
    /\ processed' = LoadProcessed(store)
    /\ loaded' = LoadProcessed(store)
    /\ pc' = IF pc = "saved" THEN "reloaded" ELSE "loaded"
    /\ UNCHANGED <<store, ledgerRest, saveVars>>

NextLedger ==
    \/ LedgerSave
    \/ LedgerLoad

SpecLedger == InitLedger /\ [][NextLedger]_vars

(***************************************************************************)
(* Claims about the orchestrator, checked under Spec.                      *)
(***************************************************************************)
\* Whether process_video is over for cur.
ItemEnded == outcome \in {"skipped", "delivered"} \cup FailureOutcomes

\* C1: the in-memory ledger changes only where load_processed fills it at the
\* start of a run and where send_video_summary has just returned success for
\* the current item, whose identifier alone is added; an item that ends with
\* no transcript, no summary, an error or a failed delivery leaves it as it
\* was. So the ledger, and the file at the end of the run, hold only what was
\* loaded and what was delivered successfully in this run.
C1_LedgerOnlyAfterDelivery ==
    /\ [][processed' # processed =>
            \/ /\ pc = "deliver"
               /\ outcome' = "delivered"
               /\ cur \in sentNow'
               /\ processed' = processed \cup {cur}
            \/ /\ pc \in {"idle", "done", "exited"}
               /\ pc' = "channel"
               /\ processed' = LoadProcessed(store)]_vars
    /\ [][(pc \in ItemPcs /\ outcome' \in FailureOutcomes) => processed' = processed]_vars
    /\ [](processed \subseteq loaded \cup sentNow)
    /\ [](pc = "done" => LoadProcessed(store) \subseteq loaded \cup sentNow)

\* C1 witness: an item's delivery has just failed and it is not in the
\* ledger, which holds another item delivered in this run.
C1_Witness ==
    /\ outcome = "failed"
    /\ cur \notin processed
    /\ sentNow # {}
    /\ sentNow \subseteq processed

C3_SkipIfInLedger ==
    /\ [][(pc = "item" /\ videos[vi] \in processed) =>
            /\ pc' \in {"item", "channel", "finally"}
            /\ calls' = <<>>
            /\ appended' = {}
            /\ UNCHANGED <<processed, store, sentNow, failedNow>>
            /\ (pc' # "finally" => (outcome' = "skipped" /\ cur' = videos[vi]))]_vars
    /\ [](outcome = "skipped" => (calls = <<>> /\ appended = {} /\ cur \in processed))

\* C3 witness: an item found in the ledger loaded from the file has been skipped.
C3_Witness ==
    /\ outcome = "skipped"
    /\ cur \in loaded
    /\ calls = <<>>
    /\ pc \in {"item", "channel"}

C5_FailedIsRetried ==
    (ItemEnded /\ cur \in failedPrev) => outcome \in {"no_transcript", "no_summary", "error"}

\* C5 as amended: the same for an item whose delivery failed in an earlier
\* run and that was not delivered successfully later in that run.
C5_OwedIsRetried ==
    (ItemEnded /\ cur \in owedPrev) => outcome \in {"no_transcript", "no_summary", "error"}

\* C5 witness: in a later run, delivery is about to be attempted for an item
\* whose delivery failed in an earlier run.
C5_Witness ==
    /\ pc = "deliver"
    /\ cur \in owedPrev
    /\ run = 2

\* C6: inside the loops save_processed has not been called; every step that
\* leaves the loops, the last channel done or an exception unwinding, reaches
\* the finally clause, whose save_processed call is the run's only one, made
\* with the in-memory ledger, which holds every identifier delivered in the run.
C6_SavedOnceOnEveryExit ==
    /\ [][(pc \in LoopPcs /\ pc' \notin LoopPcs) => pc' = "finally"]_vars
    /\ [][pc = "finally" => (pc' = "done" /\ saveCalls' = 1 /\ savedArg' = processed)]_vars
    /\ [](pc \in LoopPcs \cup {"finally"} => saveCalls = 0)
    /\ [](pc = "done" => (saveCalls = 1 /\ savedArg = processed /\ sentNow \subseteq savedArg))

\* C6 witness: a run that an exception ended partway through has made its one
\* save_processed call, with an item delivered before the exception.
C6_Witness ==
    /\ pc = "done"
    /\ aborted
    /\ saveCalls = 1
    /\ sentNow # {}
    /\ Len(attempted) < Len(Channels)

C8_ItemFailureIsolated ==
    /\ [][(pc \in ItemPcs /\ outcome' \in FailureOutcomes) =>
            /\ aborted' = aborted
            /\ vi' = vi + 1
            /\ pending' = pending
            /\ IF vi < Len(videos)
               THEN pc' = "item" /\ ci' = ci /\ videos' = videos
               ELSE pc' = "channel" /\ ci' = ci + 1]_vars
    /\ [](pc = "item" => (vi <= Len(videos) /\ pending = Len(videos) - vi + 1))
    /\ [](pc = "channel" => pending = 0)
    /\ []((pc \in {"finally", "done"} /\ ~aborted) =>
            (pending = 0 /\ Len(attempted) = Len(Channels)))

\* C8 witness: after the delivery of one item failed, a later item of the
\* run has been processed and delivered.
C8_Witness ==
    /\ outcome = "delivered"
    /\ failedNow # {}
    /\ cur \notin failedNow
    /\ sentNow = {cur}

Malformed(f) ==
    \/ f.k \in {"missing", "garbage"}
    \/ ~LiteralsOk(f)
    \/ f.top # "obj"
    \/ f.vt # "list"
    \/ f.unhash

\* C10: load_processed() on a missing or malformed ledger file returns the
\* empty set.
C10_MalformedLoadsEmpty == (pc = "loaded" /\ Malformed(store)) => processed = {}

\* C11: a save_processed call leaves a file from which load_processed()
\* returns either what it returned before the call or the set handed to the
\* call, whether the write succeeded or failed.
C11_SaveIsAtomic ==
    [][saveCalls' # saveCalls =>
            LoadProcessed(store') \in {LoadProcessed(store), savedArg'}]_vars

\* C12: save_transcript_local and save_summary_local return to process_video
\* whether their write succeeded or failed: the step after either call is the
\* next stage (summarization, delivery), with the item still running, the run
\* not aborted and the ledger untouched; delivery is attempted for every item
\* that has a summary, whatever was written; and the delivery step adds the
\* identifier to the ledger exactly when send_video_summary returned success.
C12_ArtifactWritesBestEffort ==
    /\ [][(pc = "metadata" /\ Len(calls') > Len(calls)) =>
            /\ pc' = "summarize"
            /\ outcome' = "running"
            /\ UNCHANGED <<processed, store, aborted, cur, ci, vi>>]_vars
    /\ [][(pc = "savesummary" /\ Len(calls') > Len(calls)) =>
            /\ pc' = "deliver"
            /\ outcome' = "running"
            /\ UNCHANGED <<processed, store, aborted, cur, ci, vi>>]_vars
    /\ [][(pc = "deliver" /\ Len(calls') > Len(calls)) =>
            /\ outcome' \in {"delivered", "failed"}
            /\ processed' = IF outcome' = "delivered" THEN processed \cup {cur} ELSE processed]_vars
    /\ [](pc = "summarize" => calls[Len(calls)] = "save_transcript_local")
    /\ [](pc = "deliver" => calls[Len(calls)] = "save_summary_local")

\* C12 witness: both artifact writes of an item failed, and the item was
\* delivered and recorded in the ledger.
C12_Witness ==
    /\ outcome = "delivered"
    /\ appended = {}
    /\ cur \in processed
    /\ cur \notin loaded
    /\ calls = <<"get_transcript", "fetch_video_metadata", "save_transcript_local",
                 "summarize_transcript", "save_summary_local", "send_video_summary">>

\* The environments that pass the checks are those that hold a value for the
\* three credentials and for a discovery credential, and name a channel.
PassesIffConfigured ==
    \A e \in Envs :
        e \in ValidEnvs <=>
            /\ e.gemini_key = "k" /\ e.telegram_token = "k" /\ e.telegram_chat_id = "k"
            /\ (e.youtube_key = "k" \/ e.brave_key = "k")
            /\ e.channels_raw = <<" @one", "@two ">>

\* C16: a start of main() that ends in a configuration check ends with
\* SystemExit(1), and the step from the start to the exit makes no discovery,
\* transcript, summarization or delivery call, does not call load_processed
\* or save_processed and leaves the ledger file as it was; all three checks
\* can fail, and an environment passes them only with the three credentials,
\* a discovery credential and a channel.
C16_ConfigErrorExitsBeforeWork ==
    /\ [][pc' = "exited" =>
            /\ exitCode' = 1
            /\ cfgErr' \in {"missing_credential", "no_discovery_key", "no_channels"}
            /\ UNCHANGED <<store, processed, loaded, loadCalls, saveCalls, savedArg>>
            /\ UNCHANGED <<attempted, discErr, calls, appended, sentNow, failedNow>>]_vars
    /\ [](pc = "exited" <=> cfgErr # "none")
    /\ [](pc = "exited" <=> exitCode = 1)
    /\ [](ConfigErrors = {"missing_credential", "no_discovery_key", "no_channels"})
    /\ [](PassesIffConfigured)
    /\ [][(pc # "channel" /\ pc' = "channel") => (cfgErr' = "none" /\ loadCalls' = 1)]_vars

\* C16 witness: the first start of main(), with no channel configured, has
\* exited with status 1 at the last check: nothing was loaded, called or saved,
\* and the ledger file found is still there.
C16_Witness ==
    /\ pc = "exited"
    /\ cfgErr = "no_channels"
    /\ exitCode = 1
    /\ run = 0
    /\ loadCalls = 0
    /\ saveCalls = 0
    /\ attempted = <<>>
    /\ store = LedgerFile(<<<<"a">>>>)

(***************************************************************************)
(* send_message and send_video_summary of telegram_send.py: one call of    *)
(* send_video_summary, a step for each message it hands to the transport.  *)
(***************************************************************************)
\* MAX_MESSAGE_LENGTH of telegram_send.py, scaled down from 4096: above the
\* length of the header's fixed markup, so that a header with a short title
\* fits one message and a header with a long title does not.
MAX_MESSAGE_LENGTH == 12

\* c * n
Rep(c, n) == [i \in 1..n |-> c]

\* s[:n] and s[n:]
Take(s, n) == SubSeq(s, 1, IF n < Len(s) THEN n ELSE Len(s))
Drop(s, n) == SubSeq(s, n + 1, Len(s))

\* The characters str.strip() removes, of those in the model's alphabets.
Whitespace == {" ", "\n", "\t"}

\* s.lstrip(cs) and s.rstrip(cs), cs the set of characters to remove
RECURSIVE LStrip(_, _)
LStrip(s, cs) == IF s # <<>> /\ Head(s) \in cs THEN LStrip(Tail(s), cs) ELSE s

RECURSIVE RStrip(_, _)
RStrip(s, cs) ==
    IF s # <<>> /\ s[Len(s)] \in cs THEN RStrip(SubSeq(s, 1, Len(s) - 1), cs) ELSE s

\* s.strip()
StrStrip(s) == RStrip(LStrip(s, Whitespace), Whitespace)

\* escape of send_video_summary, for one character. The three replace calls
\* in a row come to this: "&" is replaced first, and no replacement text
\* holds "<" or ">".
EscapeChar3(c) ==
    CASE c = "&" -> <<"&", "a", "m", "p", ";">>
      [] c = "<" -> <<"&", "l", "t", ";">>
      [] c = ">" -> <<"&", "g", "t", ";">>
      [] OTHER -> <<c>>

RECURSIVE escape(_)
escape(s) == IF s = <<>> THEN <<>> ELSE EscapeChar3(Head(s)) \o escape(Tail(s))

\* header = f"<b>{title_safe}</b>\n{url}\n\n"
Header(t, u) == <<"<", "b", ">">> \o escape(t) \o <<"<", "/", "b", ">", "\n">> \o u \o <<"\n", "\n">>

\* body = f"<b>{title_safe}</b>\n{url}\n\n{summary_safe}"
Body(t, u, sm) == Header(t, u) \o escape(sm)

\* SendMessage gone wrong: the text is posted as it is, however long.
SendMessageNoLimit(text, parse_mode, ok, off) ==
    [text |-> text, parse_mode |-> parse_mode, ok |-> ok, off |-> off]

\* send_message(token, chat_id, text, parse_mode): the message posted, cut to
\* MAX_MESSAGE_LENGTH - 4 characters and "..." if it is over the limit, and
\* whether the post succeeded (ok), which is what send_message returns. off
\* is the offset in summary the text was taken from (-1: the first message).
SendMessage(text, parse_mode, ok, off) ==
    [text |-> IF Len(text) > MAX_MESSAGE_LENGTH
              THEN Take(text, MAX_MESSAGE_LENGTH - 4) \o <<".", ".", ".">>
              ELSE text,
     parse_mode |-> parse_mode, ok |-> ok, off |-> off]

\* The inputs of the call. A summary is up to three runs of one character:
\* an ordinary one, whitespace, one that escape lengthens; the runs are empty,
\* one character, or about a message long.
Summaries ==
    LET Runs == {Rep(c, n) : c \in {"s", "\n", "&"},
                             n \in {0, 1, MAX_MESSAGE_LENGTH - 1, MAX_MESSAGE_LENGTH}}
    IN  {a \o b \o c : a \in Runs, b \in Runs, c \in Runs}
Titles == {<<>>, <<"t">>, <<"<">>, Rep("t", MAX_MESSAGE_LENGTH)}
Urls == {<<"u">>}

InitSend ==
    /\ store = Missing
    /\ InitRest
    /\ title \in Titles
    /\ url \in Urls
    /\ summary \in Summaries
    /\ remaining = <<>>
    /\ msgs = <<>>
    /\ ret = "none"
    /\ header_lines = <<>>
    /\ txt = <<>>
    /\ txt2 = <<>>
    /\ html = <<>>
    /\ txt_tables = <<>>
    /\ html_tables = <<>>
    /\ upstream = <<>>
    /\ cell = <<>>
    /\ wrap_width = 0
    /\ wrapped = <<>>

\* The orchestrator's variables, pc apart.
mainVars == <<store, processed, run, ci, videos, vi, appended, loaded, itemVars, histVars,
              runVars, saveVars, cfgVars, singleVars>>

\* return send_message(...) / return False / return True
Return(v) ==
    /\ ret' = (IF v THEN "True" ELSE "False")
    /\ pc' = "returned"

\* OnSendFailed gone wrong: the result of send_message is not looked at.
OnSendFailedGoesOn ==
    /\ pc' = "loop"
    /\ ret' = ret

\* if not send_message(...): return False
OnSendFailed == Return(FALSE)

\* len(body) <= MAX_MESSAGE_LENGTH: return send_message(token, chat_id, body)
SendWhole ==
    /\ pc = "idle"
    /\ Len(Body(title, url, summary)) <= MAX_MESSAGE_LENGTH
    /\ \E ok \in BOOLEAN :
        /\ msgs' = <<SendMessage(Body(title, url, summary), "HTML", ok, -1)>>
        /\ Return(ok)
    /\ UNCHANGED <<title, url, summary, remaining, mainVars, renderVars, upstream, wrapVars>>

\* The body is over the limit: the header is sent first; remaining = summary.
SendHeader ==
    /\ pc = "idle"
    /\ Len(Body(title, url, summary)) > MAX_MESSAGE_LENGTH
    /\ \E ok \in BOOLEAN :
        /\ msgs' = <<SendMessage(Header(title, url), "HTML", ok, -1)>>
        /\ IF ok
           THEN pc' = "loop" /\ remaining' = summary /\ ret' = ret
           ELSE OnSendFailed /\ remaining' = remaining
    /\ UNCHANGED <<title, url, summary, mainVars, renderVars, upstream, wrapVars>>

\* ChunkAt gone wrong: the slice ends one character early.
ChunkAtShort(r) == Take(r, MAX_MESSAGE_LENGTH - 1)

\* chunk = remaining[:MAX_MESSAGE_LENGTH]
ChunkAt(r) == Take(r, MAX_MESSAGE_LENGTH)

\* One turn of "while remaining": the next chunk is cut off and, unless it is
\* whitespace only, sent with parse_mode=None.
SendChunk ==
    /\ pc = "loop"
    /\ remaining # <<>>
    /\ remaining' = Drop(remaining, MAX_MESSAGE_LENGTH)
    /\ IF StrStrip(ChunkAt(remaining)) # <<>>
       THEN \E ok \in BOOLEAN :
            /\ msgs' = Append(msgs, SendMessage(ChunkAt(remaining), "None", ok,
                                                Len(summary) - Len(remaining)))
            /\ IF ok THEN pc' = "loop" /\ ret' = ret ELSE OnSendFailed
       ELSE UNCHANGED <<msgs, pc, ret>>
    /\ UNCHANGED <<title, url, summary, mainVars, renderVars, upstream, wrapVars>>

\* "while remaining" is over: return True
SendDone ==
    /\ pc = "loop"
    /\ remaining = <<>>
    /\ Return(TRUE)
    /\ UNCHANGED <<title, url, summary, remaining, msgs, mainVars, renderVars, upstream, wrapVars>>

NextSend ==
    \/ SendWhole
    \/ SendHeader
    \/ SendChunk
    \/ SendDone

SpecSend == InitSend /\ [][NextSend]_vars

(***************************************************************************)
(* Claims about send_video_summary, checked under SpecSend.                *)
(***************************************************************************)
\* C13: the first message posted is the body or the header, every later one
\* is the chunk of the summary at a multiple of the limit, at a larger offset
\* than the one before; only the last message posted can have failed, and
\* after a failed one the call has returned False with nothing posted since;
\* and the call returns True exactly if every message it posted succeeded.
C13_OrderedStopAtFirstFailure ==
    /\ pc # "idle" => msgs # <<>>
    /\ \A i \in DOMAIN msgs :
        /\ i = 1 =>
            /\ msgs[i].off = -1
            /\ msgs[i].text \in {SendMessage(Body(title, url, summary), "HTML", TRUE, -1).text,
                                 SendMessage(Header(title, url), "HTML", TRUE, -1).text}
        /\ i > 1 =>
            /\ msgs[i].off >= 0
            /\ msgs[i].off % MAX_MESSAGE_LENGTH = 0
            /\ msgs[i].text = SubSeq(summary, msgs[i].off + 1, msgs[i].off + Len(msgs[i].text))
            /\ msgs[i].off > msgs[i - 1].off
            /\ msgs[i].off + Len(msgs[i].text) <= Len(summary) - Len(remaining)
        /\ i < Len(msgs) => msgs[i].ok
    /\ (msgs # <<>> /\ ~msgs[Len(msgs)].ok) => (pc = "returned" /\ ret = "False")
    /\ pc = "returned" => (ret = "True" <=> \A i \in DOMAIN msgs : msgs[i].ok)
    /\ pc # "returned" => ret = "none"

\* C13 witness: the header and the first chunk were sent, the second chunk
\* failed, and the call returned False with a part of the summary not sent.
C13_Witness ==
    /\ pc = "returned"
    /\ ret = "False"
    /\ Len(msgs) = 3
    /\ msgs[2].ok
    /\ ~msgs[3].ok
    /\ remaining # <<>>

\* C14: when the body is over the limit and the call returned True, at least
\* two messages were posted, and the texts of the messages after the first,
\* in the order posted, are consecutive pieces of the summary that start at
\* its first character and end at its last: joined, they are the summary.
C14_ChunksReassembleSummary ==
    (pc = "returned" /\ ret = "True" /\ Len(Body(title, url, summary)) > MAX_MESSAGE_LENGTH) =>
        /\ Len(msgs) >= 2
        /\ msgs[2].off = 0
        /\ \A i \in 2..Len(msgs) :
            /\ msgs[i].text = SubSeq(summary, msgs[i].off + 1, msgs[i].off + Len(msgs[i].text))
            /\ i < Len(msgs) => msgs[i + 1].off = msgs[i].off + Len(msgs[i].text)
        /\ msgs[Len(msgs)].off + Len(msgs[Len(msgs)].text) = Len(summary)

\* C15 as stated: when the body is over the limit, the first message is the
\* header followed by a leading part of the (escaped) summary, and the next
\* message goes on in the summary after that part.
C15_FirstCarriesLead ==
    (pc = "returned" /\ ret = "True" /\ summary # <<>>
        /\ Len(Body(title, url, summary)) > MAX_MESSAGE_LENGTH) =>
        /\ \E k \in 1..Len(escape(summary)) :
            msgs[1].text = Header(title, url) \o Take(escape(summary), k)
        /\ Len(msgs) >= 2 => msgs[2].off > 0

\* C15 as amended: when the body is over the limit, the first message is the
\* header alone, title and url, sent as HTML and cut to the limit less four
\* characters and "..." if it is over the limit itself; every later message
\* is sent as plain text and is the piece of the unescaped summary that starts
\* at a multiple of the limit and is as long as the limit, or shorter at the
\* end of the summary; and after the call returned True the pieces sent are
\* all those of the summary, from its first character, that are not
\* whitespace only.
C15_HeaderThenWholeSummary ==
    (msgs # <<>> /\ Len(Body(title, url, summary)) > MAX_MESSAGE_LENGTH) =>
        LET h == Header(title, url)
            Piece(off) ==
                SubSeq(summary, off + 1,
                       IF off + MAX_MESSAGE_LENGTH < Len(summary)
                       THEN off + MAX_MESSAGE_LENGTH ELSE Len(summary))
            Blank(t) == \A j \in DOMAIN t : t[j] \in {" ", "\n", "\t"}
            Offsets == {off \in 0..(Len(summary) - 1) : off % MAX_MESSAGE_LENGTH = 0}
        IN  /\ msgs[1].parse_mode = "HTML"
            /\ msgs[1].text = IF Len(h) <= MAX_MESSAGE_LENGTH THEN h
                              ELSE SubSeq(h, 1, MAX_MESSAGE_LENGTH - 4) \o <<".", ".", ".">>
            /\ \A i \in 2..Len(msgs) :
                /\ msgs[i].parse_mode = "None"
                /\ msgs[i].off \in Offsets
                /\ msgs[i].text = Piece(msgs[i].off)
                /\ ~Blank(msgs[i].text)
            /\ (pc = "returned" /\ ret = "True") =>
                {msgs[i].off : i \in 2..Len(msgs)} = {off \in Offsets : ~Blank(Piece(off))}

\* C15 witness: the header went out whole, then a chunk as long as the limit
\* and a shorter last one, and the call returned True.
C15_Witness ==
    /\ pc = "returned"
    /\ ret = "True"
    /\ Len(msgs) = 3
    /\ msgs[1].text = Header(title, url)
    /\ Len(msgs[2].text) = MAX_MESSAGE_LENGTH
    /\ Len(msgs[3].text) < MAX_MESSAGE_LENGTH
    /\ msgs[2].text \o msgs[3].text = summary

(***************************************************************************)
(* txt_export.py: Markdown pipe tables reflowed to aligned text. The table *)
(* functions _parse_table_block and _is_separator_row, and the lines of    *)
(* _format_table that drop the separator row and pad the rows, are the     *)
(* same code in html_export.py (lines 43-71).                              *)
(***************************************************************************)
\* TableFormat.max_col_width, scaled down from 48 so that short cells wrap.
max_col_width == 3

\* TableFormat.padding
padding == 1

\* The characters outside ASCII (ord(ch) >= 128), written by code point.
NonAscii == {"U+4E2D"}

\* s.split(c) for a character c
RECURSIVE SplitOn(_, _)
SplitOn(s, c) ==
    IF \E i \in DOMAIN s : s[i] = c
    THEN LET i == CHOOSE k \in DOMAIN s : s[k] = c /\ \A j \in 1..(k - 1) : s[j] # c
         IN  <<SubSeq(s, 1, i - 1)>> \o SplitOn(SubSeq(s, i + 1, Len(s)), c)
    ELSE <<s>>

\* s.splitlines(), "\n" being the one line boundary of the alphabet
Splitlines(s) ==
    LET p == SplitOn(s, "\n")
    IN  IF p[Len(p)] = <<>> THEN SubSeq(p, 1, Len(p) - 1) ELSE p

\* sep.join(lines)
RECURSIVE Join(_, _)
Join(lines, sep) ==
    IF lines = <<>> THEN <<>>
    ELSE IF Len(lines) = 1 THEN lines[1]
    ELSE lines[1] \o sep \o Join(Tail(lines), sep)

\* s.replace(pat, "") for a pattern of two characters
RECURSIVE RemoveAll(_, _)
RemoveAll(s, pat) ==
    IF Len(s) < 2 THEN s
    ELSE IF s[1] = pat[1] /\ s[2] = pat[2] THEN RemoveAll(SubSeq(s, 3, Len(s)), pat)
    ELSE <<s[1]>> \o RemoveAll(Tail(s), pat)

\* _strip_md_emphasis
StripMdEmphasis(s) == RemoveAll(RemoveAll(s, <<"*", "*">>), <<"_", "_">>)

\* _disp_width
RECURSIVE DispWidth(_)
DispWidth(s) ==
    IF s = <<>> THEN 0 ELSE (IF Head(s) \in NonAscii THEN 2 ELSE 1) + DispWidth(Tail(s))

\* Pad gone wrong: nothing is added.
PadNone(s, width) == s

\* _pad
Pad(s, width) == s \o Rep(" ", IF width > DispWidth(s) THEN width - DispWidth(s) ELSE 0)

\* WrapLoop gone wrong: the text is never broken.
WrapLoopNoBreak(s, ln, cur_w, out, max_width) == <<s>>

\* The loop of _wrap_text over the characters s, with cur (ln), cur_w and
\* out as they stand.
RECURSIVE WrapLoop(_, _, _, _, _)
WrapLoop(s, ln, cur_w, out, max_width) ==
    IF s = <<>> THEN (IF ln # <<>> THEN Append(out, ln) ELSE out)
    ELSE LET ch_w == IF Head(s) \in NonAscii THEN 2 ELSE 1
         IN  IF ln # <<>> /\ cur_w + ch_w > max_width
             THEN WrapLoop(Tail(s), <<Head(s)>>, ch_w, Append(out, ln), max_width)
             ELSE WrapLoop(Tail(s), Append(ln, Head(s)), cur_w + ch_w, out, max_width)

\* _wrap_text
WrapText(s, max_width) ==
    IF StrStrip(s) = <<>> THEN << <<>> >>
    ELSE WrapLoop(StrStrip(s), <<>>, 0, <<>>, max_width)

\* _TABLE_ROW_RE.match(line): ^\s*\|.*\|\s*$
IsTableRow(line) ==
    LET t == StrStrip(line)
    IN  Len(t) >= 2 /\ t[1] = "|" /\ t[Len(t)] = "|"

\* _TABLE_SEP_CELL_RE.match(c): ^\s*:?-{2,}:?\s*$
IsSepCell(c) ==
    LET t == StrStrip(c)
        a == IF t # <<>> /\ t[1] = ":" THEN Tail(t) ELSE t
        b == IF a # <<>> /\ a[Len(a)] = ":" THEN SubSeq(a, 1, Len(a) - 1) ELSE a
    IN  Len(b) >= 2 /\ \A i \in DOMAIN b : b[i] = "-"

\* _parse_table_block: the cells of the lines up to the first that is no
\* table row.
RECURSIVE ParseTableBlock(_)
ParseTableBlock(lines) ==
    IF lines = <<>> \/ ~IsTableRow(Head(lines)) THEN <<>>
    ELSE LET cells == SplitOn(RStrip(LStrip(StrStrip(Head(lines)), {"|"}), {"|"}), "|")
         IN  <<[i \in DOMAIN cells |-> StripMdEmphasis(StrStrip(cells[i]))]>>
             \o ParseTableBlock(Tail(lines))

\* _is_separator_row
IsSeparatorRow(row) == row # <<>> /\ \A i \in DOMAIN row : IsSepCell(row[i])

\* DataRows gone wrong: a separator row after the header is kept as data.
DataRowsKeepAll(rows) == Tail(rows)

\* The rows after the header, less a separator row that comes first.
DataRows(rows) ==
    IF Len(rows) >= 2 /\ IsSeparatorRow(rows[2]) THEN SubSeq(rows, 3, Len(rows)) ELSE Tail(rows)

\* NCols gone wrong: the header's own cell count is taken for the table's.
NColsOfHeader(rows) == Len(rows[1])

\* ncols = max(len(r) for r in [header] + data_rows) if data_rows else len(header)
NCols(rows) ==
    LET rs == <<rows[1]>> \o DataRows(rows)
    IN  CHOOSE n \in {Len(rs[i]) : i \in DOMAIN rs} : \A i \in DOMAIN rs : Len(rs[i]) <= n

\* norm
Norm(r, ncols) == IF ncols > Len(r) THEN r \o [i \in 1..(ncols - Len(r)) |-> <<>>] ELSE r

\* max(S) for a set of numbers, 0 for the empty set
MaxOf(S) == IF S = {} THEN 0 ELSE CHOOSE m \in S : \A x \in S : x <= m

\* header and data_rows after "header = norm(header)" and "data_rows =
\* [norm(r) for r in data_rows]", in one list: the normalized rows.
NormRows(rows) ==
    LET rs == <<rows[1]>> \o DataRows(rows)
    IN  [r \in DOMAIN rs |-> Norm(rs[r], NCols(rows))]

\* wrapped_header and wrapped_rows in one list: the first ncols cells of each
\* normalized row, wrapped.
WrappedRows(rows) ==
    LET nr == NormRows(rows)
    IN  [r \in DOMAIN nr |-> [k \in 1..NCols(rows) |-> WrapText(nr[r][k], max_col_width)]]

\* col_widths
ColWidths(w) ==
    [k \in DOMAIN w[1] |->
        LET maxw == MaxOf(UNION {{DispWidth(w[r][k][l]) : l \in DOMAIN w[r][k]} : r \in DOMAIN w})
        IN  IF maxw < max_col_width THEN maxw ELSE max_col_width]

\* render_row: the text lines of one row of wrapped cells
RenderRow(wrapped_cells, col_widths) ==
    LET gap == Rep(" ", padding)
    IN  [i \in 1..MaxOf({Len(wrapped_cells[k]) : k \in DOMAIN wrapped_cells}) |->
            <<"|">> \o gap
            \o Join([k \in DOMAIN wrapped_cells |->
                        Pad(IF i <= Len(wrapped_cells[k]) THEN wrapped_cells[k][i] ELSE <<>>,
                            col_widths[k])],
                    gap \o <<"|">> \o gap)
            \o gap \o <<"|">>]

\* "for r in wrapped_rows: out.extend(render_row(r))", from row k on
RECURSIVE RenderRows(_, _, _)
RenderRows(w, k, col_widths) ==
    IF k > Len(w) THEN <<>> ELSE RenderRow(w[k], col_widths) \o RenderRows(w, k + 1, col_widths)

\* _format_table, for the default TableFormat
FormatTable(rows) ==
    IF rows = <<>> THEN <<>>
    ELSE LET w == WrappedRows(rows)
             col_widths == ColWidths(w)
             sep == <<"|">>
                    \o Join([k \in DOMAIN col_widths |-> Rep("-", col_widths[k] + 2 * padding)],
                            <<"+">>)
                    \o <<"|">>
         IN  RenderRow(w[1], col_widths) \o <<sep>> \o RenderRows(w, 2, col_widths)

\* The number of lines at the head of lines that are table rows: the block
\* the "while j < len(lines) and _TABLE_ROW_RE.match(lines[j])" loops collect.
RECURSIVE BlockLen(_)
BlockLen(lines) ==
    IF lines = <<>> \/ ~IsTableRow(Head(lines)) THEN 0 ELSE 1 + BlockLen(Tail(lines))

\* The main loop of summary_markdown_to_pretty_txt: the list out for lines.
\* The normalized rows of the table blocks that loop hands to _format_table.
RECURSIVE TxtTables(_)
TxtTables(lines) ==
    IF lines = <<>> THEN <<>>
    ELSE IF IsTableRow(Head(lines))
         THEN <<NormRows(ParseTableBlock(SubSeq(lines, 1, BlockLen(lines))))>>
              \o TxtTables(SubSeq(lines, BlockLen(lines) + 1, Len(lines)))
         ELSE TxtTables(Tail(lines))

RECURSIVE TxtLines(_)
TxtLines(lines) ==
    IF lines = <<>> THEN <<>>
    ELSE IF IsTableRow(Head(lines))
         THEN FormatTable(ParseTableBlock(SubSeq(lines, 1, BlockLen(lines))))
              \o TxtLines(SubSeq(lines, BlockLen(lines) + 1, Len(lines)))
         ELSE <<RStrip(StripMdEmphasis(Head(lines)), Whitespace)>> \o TxtLines(Tail(lines))

\* "collapse excessive blank lines": the list cleaned for out, blank as it stands.
RECURSIVE CollapseBlank(_, _)
CollapseBlank(out, blank) ==
    IF out = <<>> THEN <<>>
    ELSE IF StrStrip(Head(out)) = <<>>
         THEN (IF blank + 1 <= 2 THEN << <<>> >> ELSE <<>>) \o CollapseBlank(Tail(out), blank + 1)
         ELSE <<Head(out)>> \o CollapseBlank(Tail(out), 0)

\* summary_markdown_to_pretty_txt
SummaryMarkdownToPrettyTxt(summary_md) ==
    StrStrip(Join(CollapseBlank(TxtLines(Splitlines(summary_md)), 0), <<"\n">>)) \o <<"\n">>

(***************************************************************************)
(* html_export.py. In an HTML text of the model the markup the renderer    *)
(* writes itself is one element a tag ("<p>", "</td>", "<br/>"), and every *)
(* character that comes from the text rendered, the characters of the      *)
(* entities html.escape writes included, is an element of its own.         *)
(***************************************************************************)
\* HtmlEscape gone wrong: the text is passed on as it is.
HtmlEscapeRaw(s, quote) == s

\* html.escape(s, quote): "&", "<" and ">" as escape above, and with quote
\* the two quotation marks.
RECURSIVE HtmlEscape(_, _)
HtmlEscape(s, quote) ==
    IF s = <<>> THEN <<>>
    ELSE (CASE quote /\ Head(s) = "\"" -> <<"&", "q", "u", "o", "t", ";">>
            [] quote /\ Head(s) = "'" -> <<"&", "#", "x", "2", "7", ";">>
            [] OTHER -> EscapeChar3(Head(s)))
         \o HtmlEscape(Tail(s), quote)

\* The length of the match of <br\s*/?> (IGNORECASE) at the head of s, 0 if none.
BrMatch(s) ==
    IF Len(s) >= 4 /\ s[1] = "<" /\ s[2] \in {"b", "B"} /\ s[3] \in {"r", "R"}
    THEN LET rest == LStrip(SubSeq(s, 4, Len(s)), Whitespace)
             sp == Len(s) - 3 - Len(rest)
         IN  IF rest # <<>> /\ rest[1] = ">" THEN 4 + sp
             ELSE IF Len(rest) >= 2 /\ rest[1] = "/" /\ rest[2] = ">" THEN 5 + sp
             ELSE 0
    ELSE 0

\* re.sub(r"<br\s*/?>", "\n", s, flags=re.IGNORECASE)
RECURSIVE BrToNewline(_)
BrToNewline(s) ==
    IF s = <<>> THEN <<>>
    ELSE IF BrMatch(s) > 0 THEN <<"\n">> \o BrToNewline(SubSeq(s, BrMatch(s) + 1, Len(s)))
    ELSE <<Head(s)>> \o BrToNewline(Tail(s))

\* re.sub(r"\*\*(.+?)\*\*", r"<b>\1</b>", esc): at "**", the nearest "**" at
\* least one character on and before any newline closes the bold text.
RECURSIVE BoldToTags(_)
BoldToTags(s) ==
    IF s = <<>> THEN <<>>
    ELSE LET Closes(j) == /\ j + 1 <= Len(s) /\ s[j] = "*" /\ s[j + 1] = "*"
                          /\ \A k \in 3..(j - 1) : s[k] # "\n"
             js == {j \in 4..Len(s) : Closes(j)}
         IN  IF Len(s) >= 5 /\ s[1] = "*" /\ s[2] = "*" /\ js # {}
             THEN LET j == CHOOSE m \in js : \A n \in js : m <= n
                  IN  <<"<b>">> \o SubSeq(s, 3, j - 1) \o <<"</b>">>
                      \o BoldToTags(SubSeq(s, j + 2, Len(s)))
             ELSE <<Head(s)>> \o BoldToTags(Tail(s))

\* _inline_format
InlineFormat(s) ==
    LET esc == BoldToTags(HtmlEscape(BrToNewline(s), FALSE))
    IN  [i \in DOMAIN esc |-> IF esc[i] = "\n" THEN "<br/>" ELSE esc[i]]

\* f"<tag>{text}</tag>" for a row of cells
RECURSIVE TaggedCells(_, _, _)
TaggedCells(row, open, close) ==
    IF row = <<>> THEN <<>>
    ELSE <<open>> \o InlineFormat(Head(row)) \o <<close>> \o TaggedCells(Tail(row), open, close)

\* HtmlNormRows gone wrong: the separator row after the header is kept.
HtmlNormRowsKeepSep(rows) ==
    [r \in DOMAIN rows |-> Norm(rows[r], MaxOf({Len(rows[i]) : i \in DOMAIN rows}))]

\* _table_to_html's header and body_rows after "header = norm(header)" and
\* "body_rows = [norm(r) for r in body_rows]", in one list.
HtmlNormRows(rows) ==
    LET rs == <<rows[1]>> \o (IF Len(rows) >= 2 /\ IsSeparatorRow(rows[2])
                              THEN SubSeq(rows, 3, Len(rows)) ELSE Tail(rows))
        ncols == MaxOf({Len(rs[i]) : i \in DOMAIN rs})
    IN  [r \in DOMAIN rs |-> Norm(rs[r], ncols)]

\* _table_to_html
TableToHtml(rows) ==
    IF rows = <<>> THEN <<>>
    ELSE
    LET nr == HtmlNormRows(rows)
        RECURSIVE Trs(_)
        Trs(k) == IF k > Len(nr) THEN <<>>
                  ELSE <<"<tr>">> \o TaggedCells(nr[k], "<td>", "</td>")
                       \o <<"</tr>">> \o Trs(k + 1)
    IN  <<"<table>", "<thead>", "<tr>">> \o TaggedCells(nr[1], "<th>", "</th>")
        \o <<"</tr>", "</thead>", "<tbody>">> \o Trs(2) \o <<"</tbody>", "</table>">>

\* The number of "#" of a heading line, re.match(r"^(#{1,3})\s+(.*)$", line); 0: no heading.
HeadingLevel(line) ==
    LET h == Len(line) - Len(LStrip(line, {"#"}))
    IN  IF h \in 1..3 /\ Len(line) > h /\ line[h + 1] \in Whitespace THEN h ELSE 0

\* re.match(r"^\s*[-*]\s+(.*)$", line)
IsBullet(line) ==
    LET t == LStrip(line, Whitespace)
    IN  Len(t) >= 2 /\ t[1] \in {"-", "*"} /\ t[2] \in Whitespace

\* CloseUl gone wrong: an open list is never closed.
CloseUlNever(in_ul) == <<>>

\* "if in_ul: out.append("</ul>")": the entries this appends to out.
CloseUl(in_ul) == IF in_ul THEN << <<"</ul>">> >> ELSE <<>>

\* The normalized rows of the table blocks the main loop of
\* summary_markdown_to_html_doc hands to _table_to_html.
RECURSIVE HtmlTables(_)
HtmlTables(lines) ==
    IF lines = <<>> THEN <<>>
    ELSE IF IsTableRow(RStrip(Head(lines), Whitespace))
         THEN <<HtmlNormRows(ParseTableBlock(SubSeq(lines, 1, BlockLen(lines))))>>
              \o HtmlTables(SubSeq(lines, BlockLen(lines) + 1, Len(lines)))
         ELSE HtmlTables(Tail(lines))

\* The main loop of summary_markdown_to_html_doc: the entries appended to
\* out for lines, in_ul as it stands, and the closing "</ul>" after the loop.
RECURSIVE HtmlLines(_, _)
HtmlLines(lines, in_ul) ==
    LET close == CloseUl(in_ul)
    IN  IF lines = <<>> THEN close
        ELSE LET line == RStrip(Head(lines), Whitespace)
                 h == HeadingLevel(line)
             IN  IF IsTableRow(line)
                 THEN close \o <<TableToHtml(ParseTableBlock(SubSeq(lines, 1, BlockLen(lines))))>>
                      \o HtmlLines(SubSeq(lines, BlockLen(lines) + 1, Len(lines)), FALSE)
                 ELSE IF h > 0
                 THEN close
                      \o << <<CASE h = 1 -> "<h1>" [] h = 2 -> "<h2>" [] OTHER -> "<h3>">>
                            \o InlineFormat(StrStrip(SubSeq(line, h + 1, Len(line))))
                            \o <<CASE h = 1 -> "</h1>" [] h = 2 -> "</h2>" [] OTHER -> "</h3>">> >>
                      \o HtmlLines(Tail(lines), FALSE)
                 ELSE IF IsBullet(line)
                 THEN (IF in_ul THEN <<>> ELSE << <<"<ul>">> >>)
                      \o << <<"<li>">> \o InlineFormat(StrStrip(Tail(LStrip(line, Whitespace))))
                            \o <<"</li>">> >>
                      \o HtmlLines(Tail(lines), TRUE)
                 ELSE IF StrStrip(line) = <<>>
                 THEN close \o HtmlLines(Tail(lines), FALSE)
                 ELSE close \o << <<"<p>">> \o InlineFormat(line) \o <<"</p>">> >>
                      \o HtmlLines(Tail(lines), FALSE)

\* summary_markdown_to_html_doc
SummaryMarkdownToHtmlDoc(summary_md, t, hls) ==
    LET meta == IF hls = <<>> THEN <<>>
                ELSE << <<"<div class='meta'>">> >>
                     \o [i \in DOMAIN hls |->
                            <<"<p>">> \o InlineFormat(hls[i]) \o <<"</p>">>]
                     \o << <<"</div>">> >>
        body == Join(meta \o HtmlLines(Splitlines(summary_md), FALSE), <<"\n">>)
    IN  <<"<!doctype html>", "\n", "<html>", "\n", "<head>", "\n",
          " ", " ", "<meta charset=\"utf-8\"/>", "\n",
          " ", " ", "<meta name=\"viewport\" content=\"width=device-width, initial-scale=1\"/>", "\n",
          " ", " ", "<title>">> \o HtmlEscape(t, TRUE) \o <<"</title>", "\n",
          " ", " ", "<style>", "DEFAULT_CSS", "</style>", "\n", "</head>", "\n", "<body>", "\n",
          " ", " ", "<h1>">> \o HtmlEscape(t, TRUE) \o <<"</h1>", "\n", " ", " ">>
        \o body \o <<"\n", "</body>", "\n", "</html>", "\n">>

(***************************************************************************)
(* The two renderers on one summary: summary_markdown_to_pretty_txt,       *)
(* applied once and again to its own output, and                           *)
(* summary_markdown_to_html_doc.                                           *)
(***************************************************************************)
\* The longest summary rendered, in lines.
MaxLines == 3

\* The lines a summary is made of: table rows of one, two and three cells,
\* separator rows of one and two cells, a cell wider than max_col_width
\* with a character outside ASCII in it, a
\* blank line, a heading, a bullet and a paragraph, with the characters HTML
\* escapes, a <br> and bold markers.
SampleLines ==
    { <<"|", "a", "|", "b", "|">>,
      <<"|", "-", "-", "|">>,
      <<"|", "-", "-", "|", ":", "-", "-", "|">>,
      <<"|", "<", "|", ">", "|", "&", "|">>,
      <<"|", "a", "b", "U+4E2D", "d", "e", "|">>,
      <<>>,
      <<"#", " ", "<", "h">>,
      <<"-", " ", "&">>,
      <<"x", "<", "b", "r", ">", "*", "*", "<", "*", "*">> }

Docs == {Join(ls, <<"\n">>) : ls \in UNION {[1..n -> SampleLines] : n \in 1..MaxLines}}

\* The titles and metadata lines a document is rendered with: a plain title
\* and no metadata, or a title and a metadata line with characters to escape.
HtmlArgs ==
    { << <<"t">>, <<>> >>,
      << <<"<", "&", "\"", ">">>, << <<"m", "<", "b", "r", ">", "&", "<">> >> >> }

InitRender ==
    /\ store = Missing
    /\ InitRest
    /\ summary \in Docs
    /\ title = <<>>
    /\ url = <<>>
    /\ remaining = <<>>
    /\ msgs = <<>>
    /\ ret = "none"
    /\ header_lines = <<>>
    /\ txt = <<>>
    /\ txt2 = <<>>
    /\ html = <<>>
    /\ txt_tables = <<>>
    /\ html_tables = <<>>
    /\ upstream = <<>>
    /\ cell = <<>>
    /\ wrap_width = 0
    /\ wrapped = <<>>

\* txt = summary_markdown_to_pretty_txt(summary)
RenderTxt ==
    /\ pc = "idle"
    /\ txt' = SummaryMarkdownToPrettyTxt(summary)
    /\ txt_tables' = TxtTables(Splitlines(summary))
    /\ pc' = "txt"
    /\ UNCHANGED <<title, summary, sendVars, header_lines, txt2, html, html_tables, mainVars,
                   upstream, wrapVars>>

\* txt2 = summary_markdown_to_pretty_txt(txt)
RenderTxtAgain ==
    /\ pc = "txt"
    /\ txt2' = SummaryMarkdownToPrettyTxt(txt)
    /\ pc' = "txt2"
    /\ UNCHANGED <<title, summary, sendVars, header_lines, txt, html, txt_tables, html_tables,
                   mainVars, upstream, wrapVars>>

\* html = summary_markdown_to_html_doc(summary, title=t, header_lines=hl)
RenderHtml ==
    /\ pc \in {"idle", "txt"}
    /\ \E a \in HtmlArgs :
        /\ title' = a[1]
        /\ header_lines' = a[2]
        /\ html' = SummaryMarkdownToHtmlDoc(summary, a[1], a[2])
    /\ html_tables' = HtmlTables(Splitlines(summary))
    /\ pc' = "html"
    /\ UNCHANGED <<summary, sendVars, txt, txt2, txt_tables, mainVars, upstream, wrapVars>>

NextRender ==
    \/ RenderTxt
    \/ RenderTxtAgain
    \/ RenderHtml

SpecRender == InitRender /\ [][NextRender]_vars

(***************************************************************************)
(* Claims about the renderers, checked under SpecRender. The tables are    *)
(* read back from what was rendered: a text line's cells are what stands   *)
(* between its "|", an HTML row's cells what stands between "<th>" or      *)
(* "<td>" and the closing tag.                                             *)
(***************************************************************************)
\* The first index of s whose element is in S.
FirstIn(s, S) == CHOOSE i \in DOMAIN s : s[i] \in S /\ \A j \in 1..(i - 1) : s[j] \notin S

\* The cells of one rendered text line.
TxtCells(line) ==
    LET parts == SplitOn(SubSeq(line, 2, Len(line) - 1), "|")
    IN  [k \in DOMAIN parts |-> StrStrip(parts[k])]

\* Whether a rendered text line is the rule under the header.
IsRule(line) == line # <<>> /\ \A i \in DOMAIN line : line[i] \in {"|", "-", "+"}

\* The cells between the tags of one "<tr>".
RECURSIVE HtmlCells(_)
HtmlCells(seg) ==
    IF seg = <<>> THEN <<>>
    ELSE LET j == FirstIn(seg, {"</th>", "</td>"})
         IN  <<SubSeq(seg, 2, j - 1)>> \o HtmlCells(SubSeq(seg, j + 1, Len(seg)))

\* The rows of the tables of an HTML text, each the list of its cells.
RECURSIVE HtmlRows(_)
HtmlRows(h) ==
    IF \A i \in DOMAIN h : h[i] # "<tr>" THEN <<>>
    ELSE LET i == FirstIn(h, {"<tr>"})
             rest == SubSeq(h, i + 1, Len(h))
             j == FirstIn(rest, {"</tr>"})
         IN  <<HtmlCells(SubSeq(rest, 1, j - 1))>> \o HtmlRows(SubSeq(rest, j + 1, Len(rest)))

\* The rows of the summary when all of it is one table block, <<>> otherwise.
OneTable ==
    LET ls == Splitlines(summary)
    IN  IF ls # <<>> /\ \A i \in DOMAIN ls : IsTableRow(ls[i]) THEN ParseTableBlock(ls) ELSE <<>>

\* C17 as stated: in a rendered table every text line, the rule included, and
\* every HTML row has as many columns as the header row has cells.
C17_ColumnsEqualHeader ==
    OneTable # <<>> =>
        /\ pc = "txt" =>
            \A i \in DOMAIN Splitlines(txt) :
                LET line == Splitlines(txt)[i]
                IN  IF IsRule(line)
                    THEN Len(SplitOn(SubSeq(line, 2, Len(line) - 1), "+")) = Len(OneTable[1])
                    ELSE Len(TxtCells(line)) = Len(OneTable[1])
        /\ pc = "html" =>
            \A q \in DOMAIN HtmlRows(html) : Len(HtmlRows(html)[q]) = Len(OneTable[1])

\* C17 as amended: in a rendered table every text line, the rule included,
\* and every HTML row has the same number of columns, the largest cell count
\* among the header and the data rows (a separator row after the header is
\* no data row); the HTML rows are the header and the data rows in their
\* order, each with its own cells first and empty cells after them, and so
\* are the text lines where no cell is wide enough to wrap.
C17_ColumnsEqualWidestRow ==
    OneTable # <<>> =>
        LET rows == OneTable
            sepAt2 == Len(rows) >= 2 /\ \A k \in DOMAIN rows[2] : IsSepCell(rows[2][k])
            kept == IF sepAt2 THEN <<rows[1]>> \o SubSeq(rows, 3, Len(rows)) ELSE rows
            n == MaxOf({Len(kept[i]) : i \in DOMAIN kept})
            noWrap == \A i \in DOMAIN kept : \A k \in DOMAIN kept[i] :
                          DispWidth(kept[i][k]) <= max_col_width
            lines == Splitlines(txt)
            hrows == HtmlRows(html)
        IN  /\ pc = "txt" =>
                /\ \A i \in DOMAIN lines :
                    IF IsRule(lines[i])
                    THEN Len(SplitOn(SubSeq(lines[i], 2, Len(lines[i]) - 1), "+")) = n
                    ELSE Len(TxtCells(lines[i])) = n
                /\ noWrap =>
                    /\ Len(lines) = Len(kept) + 1
                    /\ IsRule(lines[2])
                    /\ \A i \in DOMAIN kept : \A k \in 1..n :
                        TxtCells(lines[IF i = 1 THEN 1 ELSE i + 1])[k]
                            = IF k <= Len(kept[i]) THEN StrStrip(kept[i][k]) ELSE <<>>
            /\ pc = "html" =>
                /\ Len(hrows) = Len(kept)
                /\ \A i \in DOMAIN hrows :
                    /\ Len(hrows[i]) = n
                    /\ \A k \in 1..n :
                        hrows[i][k] = IF k <= Len(kept[i]) THEN InlineFormat(kept[i][k]) ELSE <<>>

\* C17 witness (text): a table of a two-cell header and a one-cell data row
\* is rendered, each of the data row's three lines with two columns, the
\* second one empty.
C17_Witness ==
    /\ pc = "txt"
    /\ OneTable = << <<<<"a">>, <<"b">>>>, <<<<"a", "b", "U+4E2D", "d", "e">>>> >>
    /\ Len(Splitlines(txt)) = 5
    /\ TxtCells(Splitlines(txt)[3]) = <<<<"a", "b">>, <<>>>>
    /\ TxtCells(Splitlines(txt)[4]) = <<<<"U+4E2D", "d">>, <<>>>>
    /\ TxtCells(Splitlines(txt)[5]) = <<<<"e">>, <<>>>>

\* C18: when the row right after the header has only separator markers for
\* cells, both renderers leave it out: the HTML table has one row fewer than
\* the block, its body rows being the block's rows from the third on, cell by
\* cell, and so has the text table (the rule taking the row's place) where no
\* cell is wide enough to wrap.
C18_SeparatorRowDropped ==
    LET rows == OneTable
        lines == Splitlines(txt)
        hrows == HtmlRows(html)
    IN  (Len(rows) >= 2 /\ IsSeparatorRow(rows[2])) =>
            /\ pc = "html" =>
                /\ Len(hrows) = Len(rows) - 1
                /\ \A k \in DOMAIN rows[1] : hrows[1][k] = InlineFormat(rows[1][k])
                /\ \A i \in 2..Len(hrows) : \A k \in DOMAIN rows[i + 1] :
                    hrows[i][k] = InlineFormat(rows[i + 1][k])
            /\ (/\ pc = "txt"
                /\ \A i \in DOMAIN rows : \A k \in DOMAIN rows[i] :
                    DispWidth(rows[i][k]) <= max_col_width) =>
                /\ Len(lines) = Len(rows)
                /\ \A k \in DOMAIN rows[1] : TxtCells(lines[1])[k] = StrStrip(rows[1][k])
                /\ IsRule(lines[2])
                /\ \A i \in 3..Len(lines) : \A k \in DOMAIN rows[i] :
                    TxtCells(lines[i])[k] = StrStrip(rows[i][k])

\* C18 witness (HTML): a two-column table with a separator row and one data
\* row is rendered as a header row and that data row.
C18_Witness ==
    /\ pc = "html"
    /\ Len(OneTable) = 3
    /\ OneTable[2] = <<<<"-", "-">>, <<":", "-", "-">>>>
    /\ HtmlRows(html) = <<OneTable[1], OneTable[3]>>

\* A well-formed pipe table: the summary is one table block of a header row,
\* a separator row and body rows, all of the same number of cells.
WellFormedTable ==
    /\ Len(OneTable) >= 2
    /\ IsSeparatorRow(OneTable[2])
    /\ \A i \in DOMAIN OneTable : Len(OneTable[i]) = Len(OneTable[1])

\* The table a rendered text shows: the cells of each of its lines, the rule
\* standing as a line of no cells.
TxtStructure(t) ==
    LET lines == Splitlines(t)
    IN  [i \in DOMAIN lines |-> IF IsRule(lines[i]) THEN <<>> ELSE TxtCells(lines[i])]

\* C19: for a well-formed pipe table, the text renderer applied to its own
\* output shows the same table as the first application: the same header
\* cells, a rule, and the same body rows with the same cell contents.
C19_ReflowIdempotent ==
    (pc = "txt2" /\ WellFormedTable) => TxtStructure(txt2) = TxtStructure(txt)

\* The markup summary_markdown_to_html_doc itself emits, one element a tag.
Markup ==
    {"<!doctype html>", "<html>", "</html>", "<head>", "</head>", "<body>", "</body>",
     "<meta charset=\"utf-8\"/>",
     "<meta name=\"viewport\" content=\"width=device-width, initial-scale=1\"/>",
     "<title>", "</title>", "<style>", "DEFAULT_CSS", "</style>",
     "<h1>", "</h1>", "<h2>", "</h2>", "<h3>", "</h3>", "<p>", "</p>",
     "<ul>", "</ul>", "<li>", "</li>", "<div class='meta'>", "</div>",
     "<table>", "</table>", "<thead>", "</thead>", "<tbody>", "</tbody>",
     "<tr>", "</tr>", "<th>", "</th>", "<td>", "</td>", "<b>", "</b>", "<br/>"}

\* The character references html.escape writes.
Entities ==
    {<<"&", "a", "m", "p", ";">>, <<"&", "l", "t", ";">>, <<"&", "g", "t", ";">>,
     <<"&", "q", "u", "o", "t", ";">>, <<"&", "#", "x", "2", "7", ";">>}

\* The characters of a list of texts.
CharsOf(texts) == UNION {{texts[i][k] : k \in DOMAIN texts[i]} : i \in DOMAIN texts}

\* C20: in the HTML document rendered for a summary, a title and metadata
\* lines, every element is either markup the renderer emits or a character
\* of the supplied texts or of a character reference; none of these
\* characters is "<" or ">", and every "&" begins a character reference.
C20_SuppliedTextEscaped ==
    pc = "html" =>
        LET safe == (CharsOf(<<summary, title>> \o header_lines) \cup {" ", "\n"}
                        \cup UNION {CharsOf(<<e>>) : e \in Entities}) \ {"<", ">"}
        IN  \A i \in DOMAIN html :
            \/ html[i] \in Markup
            \/ /\ html[i] \in safe
               /\ html[i] = "&" =>
                    \E e \in Entities :
                        /\ i + Len(e) - 1 <= Len(html)
                        /\ SubSeq(html, i, i + Len(e) - 1) = e

\* C20 witness: a summary with "<", ">" and "&" in a table, a title with
\* "<", "&" and a quote, and a metadata line with "<" and "&" are rendered,
\* the title's text being written as character references.
C20_Witness ==
    /\ pc = "html"
    /\ {"<", ">", "&"} \subseteq CharsOf(<<summary>>)
    /\ IsTableRow(summary)
    /\ {"<", "&", "\""} \subseteq CharsOf(<<title>>)
    /\ header_lines # <<>> /\ {"<", "&"} \subseteq CharsOf(header_lines)
    /\ \E i \in DOMAIN html :
        /\ html[i] = "<title>"
        /\ SubSeq(html, i + 1, i + 4) = <<"&", "l", "t", ";">>

\* C21: for a summary both renderers have rendered, the table blocks of the
\* text renderer and those of the HTML renderer are the same blocks in the
\* same order, each with the same normalized rows: the same header, the
\* separator row dropped in both, the same column count and cell strings.
C21_SameTablesInBothRenderers ==
    (pc = "html" /\ txt # <<>>) => html_tables = txt_tables

\* C21 witness: both renderers have rendered a summary of a two-column
\* table block, a line that is no table row and a three-column table block,
\* and the rows of the HTML document are those of the two blocks.
C21_Witness ==
    /\ pc = "html" /\ txt # <<>>
    /\ Len(html_tables) = 2
    /\ Len(html_tables[1]) = 1 /\ Len(html_tables[1][1]) = 2
    /\ Len(html_tables[2]) = 1 /\ Len(html_tables[2][1]) = 3
    /\ HtmlRows(html) = html_tables[1] \o <<[k \in 1..3 |-> InlineFormat(html_tables[2][1][k])]>>

(***************************************************************************)
(* The discovery sources: brave_search.get_todays_videos and               *)
(* youtube_channel.get_todays_videos, each turning the items of one        *)
(* response of its search API into a list of VideoResult. An item is the   *)
(* video id it carries (the id YOUTUBE_WATCH_PATTERN finds in its url, or  *)
(* its id.videoId), NoId if it carries none; a VideoResult is its          *)
(* video_id.                                                               *)
(***************************************************************************)
\* The longest response, in items.
MaxItems == 3

Responses == UNION {[1..n -> Ids \cup {NoId}] : n \in 0..MaxItems}

\* brave_search: the loop over data["results"], seen_ids as it stands.
RECURSIVE BraveResults(_, _)
BraveResults(items, seen_ids) ==
    IF items = <<>> THEN <<>>
    ELSE IF Head(items) = NoId \/ Head(items) \in seen_ids
         THEN BraveResults(Tail(items), seen_ids)
         ELSE <<Head(items)>> \o BraveResults(Tail(items), seen_ids \cup {Head(items)})

\* youtube_channel: the loop over data["items"].
YoutubeResults(items) == SelectSeq(items, LAMBDA vid : vid # NoId)

InitDiscover ==
    /\ store = Missing
    /\ InitRest
    /\ upstream \in Responses
    /\ title = <<>> /\ url = <<>> /\ summary = <<>>
    /\ remaining = <<>> /\ msgs = <<>> /\ ret = "none"
    /\ header_lines = <<>> /\ txt = <<>> /\ txt2 = <<>> /\ html = <<>>
    /\ txt_tables = <<>> /\ html_tables = <<>>
    /\ cell = <<>> /\ wrap_width = 0 /\ wrapped = <<>>

\* The variables a discovery call leaves alone.
discoverRest == <<store, processed, run, ci, vi, appended, loaded, itemVars, histVars, runVars,
                  saveVars, cfgVars, fnVars, singleVars>>

\* brave_search.get_todays_videos: resp.raise_for_status() raises, or the
\* results of the response are returned.
BraveGetTodaysVideos ==
    /\ pc = "idle"
    /\ \E ok \in BOOLEAN :
        IF ok THEN videos' = BraveResults(upstream, {}) /\ pc' = "brave"
        ELSE videos' = videos /\ pc' = "raised"
    /\ UNCHANGED discoverRest

\* youtube_channel.get_todays_videos: a request raises, the handle resolves
\* to no channel (the result is empty), or the items of the search response
\* are returned.
YoutubeGetTodaysVideos ==
    /\ pc = "idle"
    /\ \E res \in {"raised", "no_channel", "ok"} :
        /\ videos' = IF res = "ok" THEN YoutubeResults(upstream) ELSE videos
        /\ pc' = IF res = "raised" THEN "raised" ELSE "youtube"
    /\ UNCHANGED discoverRest

NextDiscover ==
    \/ BraveGetTodaysVideos
    \/ YoutubeGetTodaysVideos

SpecDiscover == InitDiscover /\ [][NextDiscover]_vars

\* C22: the list a discovery source returns for one call holds no video id
\* twice, whatever the response of its search API.
C22_NoDuplicateIdsInOneCall ==
    pc \in {"brave", "youtube"} =>
        \A i, j \in DOMAIN videos : i # j => videos[i] # videos[j]

(***************************************************************************)
(* Claims about the order of the stages of one item, checked under Spec.   *)
(***************************************************************************)
\* The stages process_video calls after the ledger check, in their order.
StageOrder == <<"get_transcript", "summarize_transcript", "send_video_summary">>

\* The stages called for cur so far, in the order of the calls.
StageCalls == SelectSeq(calls, LAMBDA c : c \in Range(StageOrder))

\* C23: the stages called for an item are a prefix of transcript fetch,
\* summarization, delivery, in that order; an item skipped by the ledger
\* check has called none, one ended for want of a transcript only the fetch,
\* one ended for want of a summary the fetch and the summarization, and only
\* an item whose summary was there has called the delivery; the ledger grows
\* only by the item whose delivery has just succeeded; and once an item has
\* ended no further call is made for it (the list of its calls changes only
\* by being emptied, for the next item or when the loops are left).
C23_StagesInOrderUntilFirstFailure ==
    /\ [](/\ StageCalls = SubSeq(StageOrder, 1, Len(StageCalls))
          /\ outcome = "skipped" => calls = <<>>
          /\ outcome = "no_transcript" => StageCalls = SubSeq(StageOrder, 1, 1)
          /\ outcome = "no_summary" => StageCalls = SubSeq(StageOrder, 1, 2)
          /\ outcome \in {"delivered", "failed"} => StageCalls = StageOrder
          /\ outcome = "running" =>
                Len(StageCalls) = (CASE pc = "transcript" -> 0
                                     [] pc \in {"metadata", "summarize"} -> 1
                                     [] OTHER -> 2))
    /\ [][/\ (pc \in LoopPcs /\ processed' # processed) =>
                /\ processed' = processed \cup {cur}
                /\ outcome' = "delivered"
                /\ StageCalls' = StageOrder
          /\ (ItemEnded /\ calls' # calls) => calls' = <<>>]_vars

\* C23 witness: an item has ended for want of a summary, after the
\* transcript fetch and the summarization and with no delivery.
C23_Witness ==
    /\ outcome = "no_summary"
    /\ calls = <<"get_transcript", "fetch_video_metadata", "save_transcript_local",
                 "summarize_transcript">>
    /\ cur \notin processed

\* C24: a local artifact of an item is written only once the summarization
\* has been called and has produced a summary, and before the delivery: an
\* item that ended for want of a summary has appended to no local file.
C24_ArtifactsOnlyAfterSummary ==
    /\ appended # {} =>
        /\ "summarize_transcript" \in Range(calls)
        /\ outcome \notin {"no_summary", "no_transcript", "skipped"}
    /\ outcome = "no_summary" => appended = {}

\* C25 as stated: an identifier whose delivery was attempted in the current
\* run, successfully or not, has no stage called for it again in that run.
C25_NoSecondAttemptInRun ==
    (outcome = "running" /\ cur \in failedNow \cup sentNow) => StageCalls = <<>>

\* C25 as amended: each call of process_video calls each stage at most once;
\* process_video is called at most once for each occurrence of an identifier
\* in the discovery results of the run; and a stage is called only for an
\* identifier that was not in the ledger at the start of the run and has not
\* been delivered in it. An identifier whose attempt failed is thus attempted
\* again in the same run only when discovery returns it once more.
C25_OneAttemptPerOccurrence ==
    /\ \A i, j \in DOMAIN StageCalls : i # j => StageCalls[i] # StageCalls[j]
    /\ pending >= 0
    /\ (outcome = "running" \/ (StageCalls # <<>> /\ outcome # "delivered")) =>
            cur \notin loaded \cup sentNow
    /\ (StageCalls # <<>> /\ outcome = "delivered") => cur \in sentNow \ loaded

\* C25 witness: an identifier whose delivery failed in this run was returned
\* by discovery again, and its transcript is fetched a second time.
C25_Witness ==
    /\ cur \in failedNow
    /\ outcome = "running"
    /\ pc = "metadata"
    /\ calls = <<"get_transcript">>

\* The number of elements of h among the first n that are in S.
CountIn(h, n, S) == Cardinality({i \in 1..n : h[i] \in S})

\* Whether the HTML renderer takes a line of the summary for a bullet.
BulletLine(line) ==
    LET l == RStrip(line, Whitespace)
    IN  ~IsTableRow(l) /\ HeadingLevel(l) = 0 /\ IsBullet(l)

\* C26: in the document rendered for a summary, lists are well formed and
\* never nested: a "<ul>" stands where no list is open, a "</ul>" where one
\* is, at the end none is open, every "<li>" stands in an open list,
\* and headings, paragraphs and tables stand outside of lists; every bullet
\* line is one list item, and every run of consecutive bullet lines is one
\* list.
C26_ListsWellFormed ==
    pc = "html" =>
        LET ls == Splitlines(summary)
            bullets == {i \in DOMAIN ls : BulletLine(ls[i])}
            opens == {n \in DOMAIN html : html[n] = "<ul>"}
            closes == {n \in DOMAIN html : html[n] = "</ul>"}
            Depth(n) == Cardinality({i \in opens : i <= n}) - Cardinality({i \in closes : i <= n})
        IN  /\ \A n \in opens : Depth(n - 1) = 0
            /\ \A n \in closes : Depth(n - 1) = 1
            /\ Depth(Len(html)) = 0
            /\ \A n \in DOMAIN html :
                /\ html[n] \in {"<li>", "</li>"} => Depth(n) = 1
                /\ html[n] \in {"<p>", "<h1>", "<h2>", "<h3>", "<table>", "</body>"} =>
                        Depth(n) = 0
            /\ CountIn(html, Len(html), {"<li>"}) = Cardinality(bullets)
            /\ CountIn(html, Len(html), {"<ul>"})
                    = Cardinality({i \in bullets : i - 1 \notin bullets})

\* C26 witness: two consecutive bullet lines and a paragraph are rendered as
\* one list of two items, closed before the paragraph.
C26_Witness ==
    /\ pc = "html"
    /\ Len(Splitlines(summary)) = 3
    /\ BulletLine(Splitlines(summary)[1]) /\ BulletLine(Splitlines(summary)[2])
    /\ CountIn(html, Len(html), {"<ul>"}) = 1
    /\ CountIn(html, Len(html), {"<li>"}) = 2
    /\ \E n \in DOMAIN html : html[n] = "</ul>" /\ n + 2 <= Len(html) /\ html[n + 2] = "<p>"

(***************************************************************************)
(* _wrap_text on its own: one call for a cell and a maximum width.         *)
(***************************************************************************)
\* The longest cell wrapped, in characters, and the largest maximum width.
MaxCellLen == 4
MaxWrapWidth == 4

\* The cells wrapped: ASCII letters, blanks and a character outside ASCII.
Cells == UNION {[1..n -> {"a", " ", "U+4E2D"}] : n \in 0..MaxCellLen}

InitWrap ==
    /\ store = Missing
    /\ InitRest
    /\ cell \in Cells
    /\ wrap_width \in 1..MaxWrapWidth
    /\ wrapped = <<>>
    /\ title = <<>> /\ url = <<>> /\ summary = <<>>
    /\ remaining = <<>> /\ msgs = <<>> /\ ret = "none"
    /\ header_lines = <<>> /\ txt = <<>> /\ txt2 = <<>> /\ html = <<>>
    /\ txt_tables = <<>> /\ html_tables = <<>>
    /\ upstream = <<>>

\* wrapped = _wrap_text(cell, wrap_width)
WrapCell ==
    /\ pc = "idle"
    /\ wrapped' = WrapText(cell, wrap_width)
    /\ pc' = "wrapped"
    /\ UNCHANGED <<cell, wrap_width, title, summary, sendVars, renderVars, upstream, mainVars>>

SpecWrap == InitWrap /\ [][WrapCell]_vars

\* C27 as stated: the lines _wrap_text returns, put together, are the cell
\* less the whitespace around it, and no line is wider on display than the
\* maximum width.
C27_WrapLosslessWithinLimit ==
    pc = "wrapped" =>
        /\ Join(wrapped, <<>>) = StrStrip(cell)
        /\ \A i \in DOMAIN wrapped : DispWidth(wrapped[i]) <= wrap_width

\* C27 as amended: the lines put together are the cell less the whitespace
\* around it; a line wider on display than the maximum width is a single
\* character (one outside ASCII, the maximum being 1), and no line is wider
\* when the maximum is 2 or more; no line is empty unless the cell is.
C27_WrapLosslessOneCharAtLeast ==
    pc = "wrapped" =>
        /\ Join(wrapped, <<>>) = StrStrip(cell)
        /\ \A i \in DOMAIN wrapped :
            /\ DispWidth(wrapped[i]) <= wrap_width
                    \/ (Len(wrapped[i]) = 1 /\ wrapped[i][1] \in NonAscii /\ wrap_width = 1)
            /\ wrapped[i] = <<>> => (StrStrip(cell) = <<>> /\ Len(wrapped) = 1)

\* C27 witness: a cell of letters, an inner blank and a character outside
\* ASCII, with a blank before it, is wrapped to width 2 into two lines.
C27_Witness ==
    /\ pc = "wrapped"
    /\ cell = <<" ", "a", " ", "U+4E2D">>
    /\ wrap_width = 2
    /\ wrapped = << <<"a", " ">>, <<"U+4E2D">> >>

\* C28: every table the text renderer renders is aligned. For a summary that
\* is one table block: all lines of the table, the header's, the rule and
\* every line of every data row, have the same display width; the rule is,
\* column by column, a run of dashes as wide as the column and its padding;
\* and each column is as wide as the widest wrapped line of its cells, but
\* no wider than max_col_width.
C28_TableAligned ==
    (pc = "txt" /\ OneTable # <<>>) =>
        LET lines == Splitlines(txt)
            nr == txt_tables[1]
            n == Len(nr[1])
            widest == [k \in 1..n |->
                        MaxOf(UNION {{DispWidth(WrapText(nr[r][k], max_col_width)[l]) :
                                        l \in DOMAIN WrapText(nr[r][k], max_col_width)} :
                                     r \in DOMAIN nr})]
            colw == [k \in 1..n |-> IF widest[k] < max_col_width THEN widest[k] ELSE max_col_width]
            rule == <<"|">> \o Join([k \in 1..n |-> Rep("-", colw[k] + 2 * padding)], <<"+">>)
                    \o <<"|">>
        IN  /\ \A i \in DOMAIN lines : DispWidth(lines[i]) = DispWidth(lines[1])
            /\ \E i \in DOMAIN lines : lines[i] = rule
            /\ \A i \in DOMAIN lines :
                ~IsRule(lines[i]) =>
                    LET parts == SplitOn(SubSeq(lines[i], 2, Len(lines[i]) - 1), "|")
                    IN  \A k \in 1..n : DispWidth(parts[k]) = colw[k] + 2 * padding

\* C28 witness: a table whose header cell, with a character outside ASCII in
\* it, wraps to three lines, with a separator row and a row of two cells, is
\* rendered in five lines; the character of display width 2 is padded with
\* one blank less.
C28_Witness ==
    /\ pc = "txt"
    /\ Len(OneTable) = 3
    /\ OneTable[1] = <<<<"a", "b", "U+4E2D", "d", "e">>>>
    /\ OneTable[3] = <<<<"a">>, <<"b">>>>
    /\ Len(Splitlines(txt)) = 5
    /\ Splitlines(txt)[4] = <<"|", "-", "-", "-", "-", "-", "+", "-", "-", "-", "|">>
    /\ Splitlines(txt)[2] = <<"|", " ", "U+4E2D", "d", " ", "|", " ", " ", " ", "|">>

\* C29: no message send_message posts is longer than MAX_MESSAGE_LENGTH,
\* whatever the title, the url and the summary of the call.
C29_MessagesWithinLimit ==
    \A i \in DOMAIN msgs : Len(msgs[i].text) <= MAX_MESSAGE_LENGTH

\* C29 witness: the header alone is over the limit; it was posted cut to the
\* limit less four characters, with "..." after them, and a chunk of the
\* full length after it.
C29_Witness ==
    /\ Len(Header(title, url)) > MAX_MESSAGE_LENGTH
    /\ Len(msgs) >= 2
    /\ msgs[1].text = Take(Header(title, url), MAX_MESSAGE_LENGTH - 4) \o <<".", ".", ".">>
    /\ Len(msgs[2].text) = MAX_MESSAGE_LENGTH

\* C30: within one run an identifier is delivered successfully at most
\* once: send_video_summary returns success only for an identifier not yet
\* delivered in the run, and every call of process_video for an identifier
\* already delivered in the run ends at the ledger check, with no stage
\* called, whether the identifier comes again in the same channel's list or
\* in another channel's.
C30_DeliveredOncePerRun ==
    /\ [][(pc = "deliver" /\ outcome' = "delivered") => cur \notin sentNow]_vars
    /\ [][(pc = "item" /\ videos[vi] \in sentNow /\ ~aborted') =>
            (outcome' = "skipped" /\ calls' = <<>> /\ sentNow' = sentNow)]_vars
    /\ [](cur \in sentNow => outcome \in {"delivered", "skipped", "none"})

\* C30 witness: discovery returned the same identifier twice in one list;
\* its first occurrence was delivered and its second has just been skipped.
C30_Witness ==
    /\ outcome = "skipped"
    /\ cur \in sentNow \ loaded
    /\ calls = <<>>
    /\ Len(videos) = 2
    /\ vi = 3
    /\ videos[1] = cur
    /\ videos[2] = cur

\* C30 witness across channels: the identifier delivered for the first
\* channel is the first one returned for the second channel, and is skipped.
C30_WitnessAcrossChannels ==
    /\ outcome = "skipped"
    /\ cur \in sentNow \ loaded
    /\ ci = 2
    /\ vi = 2
    /\ videos[1] = cur

\* C31: from load_processed to save_processed no step of a run takes an
\* identifier out of the in-memory ledger, so the ledger holds what was loaded
\* all along the run, and the set handed to save_processed holds it too.
C31_LedgerOnlyGrows ==
    /\ [][(pc \in LoopPcs \cup {"finally"}) => processed \subseteq processed']_vars
    /\ [](pc \in LoopPcs \cup {"finally", "done"} => loaded \subseteq processed)
    /\ [](saveCalls > 0 => loaded \subseteq savedArg)

\* C31 witness: a run that loaded a ledger with an identifier in it delivered
\* another one, and has handed both to save_processed.
C31_Witness ==
    /\ pc = "done"
    /\ saveCalls = 1
    /\ loaded # {}
    /\ sentNow # {}
    /\ savedArg = loaded \cup sentNow
    /\ savedArg # loaded

(***************************************************************************)
(* Single-video mode of main() (--video) and run_single_video.             *)
(***************************************************************************)
MaxArgs == 2       \* number of items of --video, after the split at commas

\* The length of a video id (11 in the code, scaled).
IdLen == 1

\* _video_id_from_input(s): the id of the first match of VIDEO_ID_FROM_URL in
\* the stripped string, else the stripped string if it is IdLen id
\* characters, else None. "/" stands for the "youtu.be/" or
\* "youtube.com/watch?v=" of a URL, "a" and "b" are the id characters.
VideoIdFromInput(s) ==
    LET t == StrStrip(s)
        m == {i \in DOMAIN t : /\ t[i] = "/"
                               /\ i + IdLen <= Len(t)
                               /\ \A k \in 1..IdLen : t[i + k] \in {"a", "b"}}
    IN  IF t = <<>> THEN NoId
        ELSE IF m # {}
             THEN LET i == CHOOSE j \in m : \A k \in m : j <= k
                  IN  SubSeq(t, i + 1, i + IdLen)
        ELSE IF Len(t) = IdLen /\ Range(t) \subseteq {"a", "b"} THEN t
        ELSE NoId

\* The two loops of main over the items: the items p with an empty p.strip()
\* are dropped, and the ids of the others are appended to video_ids until an
\* item is no id (ok is FALSE then: main exits).
RECURSIVE ParseVideoIds(_)
ParseVideoIds(items) ==
    IF items = <<>> THEN [ids |-> <<>>, ok |-> TRUE]
    ELSE IF StrStrip(Head(items)) = <<>> THEN ParseVideoIds(Tail(items))
    ELSE IF VideoIdFromInput(Head(items)) = NoId THEN [ids |-> <<>>, ok |-> FALSE]
    ELSE LET r == ParseVideoIds(Tail(items))
         IN  [ids |-> <<VideoIdFromInput(Head(items))>> \o r.ids, ok |-> r.ok]

\* What --video can be given: ids, an id with blanks around it, URLs, a URL
\* with text around it, a blank item, items that are no id.
VideoArgs ==
    LET items == {<<"a">>, <<" ", "b", " ">>, <<"/", "a">>, <<"x", "/", "b", "?">>,
                  <<" ">>, <<"?">>, <<"a", "b">>}
    IN  UNION {[1..n -> items] : n \in 1..MaxArgs}

\* main() has not started; the ledger file is any a channel-mode run can
\* leave behind.
InitSingle ==
    /\ store \in InitStores \cup {LedgerFile(<<<<"a">>, <<"b">>>>)}
    /\ InitRest
    /\ InitFn

\* The positions of run_single_video after its entry.
SinglePcs == {"single_transcript", "single_savetranscript", "single_summarize",
              "single_savesummary", "single_deliver"}

\* What the single-video actions leave alone: the ledger, in memory and on
\* disk, and the variables of channel mode.
singleRest == <<store, processed, run, ci, videos, loaded, histVars, runVars, saveVars,
                loadCalls, fnVars>>

\* main() with --video up to "for vid in video_ids": the credentials check,
\* the split of the items, the parse of the ids; the first item that is no id
\* ends the process.
MainSingleStart ==
    /\ pc = "idle"
    /\ \E arg \in VideoArgs : \E credentials \in BOOLEAN :
        /\ video_arg' = arg
        /\ IF ~credentials
           THEN /\ cfgErr' = "missing_credential"
                /\ OnConfigError
                /\ UNCHANGED <<single_ids, vi>>
           ELSE /\ single_ids' = ParseVideoIds(arg).ids
                /\ vi' = 1
                /\ IF ParseVideoIds(arg).ok
                   THEN cfgErr' = "none" /\ pc' = "single" /\ UNCHANGED exitCode
                   ELSE cfgErr' = "invalid_video" /\ OnConfigError
    /\ UNCHANGED <<cur, outcome, calls, appended, single_calls, single_sent>>
    /\ UNCHANGED singleRest

\* RunSingleVideoEntry gone wrong: the ledger is loaded and a video in it is
\* passed over, as process_video does in channel mode.
RunSingleVideoEntryChecksLedger ==
    /\ pc = "single"
    /\ vi <= Len(single_ids)
    /\ cur' = single_ids[vi]
    /\ appended' = {}
    /\ IF single_ids[vi] \in LoadProcessed(store)
       THEN /\ outcome' = "skipped"
            /\ calls' = <<>>
            /\ vi' = vi + 1
            /\ UNCHANGED <<pc, single_calls>>
       ELSE /\ outcome' = "running"
            /\ calls' = <<"fetch_video_metadata">>
            /\ single_calls' = Append(single_calls, single_ids[vi])
            /\ pc' = "single_transcript"
            /\ UNCHANGED vi
    /\ UNCHANGED <<video_arg, single_ids, single_sent, cfgErr, exitCode>>
    /\ UNCHANGED singleRest

\* for vid in video_ids: run_single_video(vid, ...) is called and fetches the
\* metadata (every failure caught inside).
RunSingleVideoEntry ==
    /\ pc = "single"
    /\ vi <= Len(single_ids)
    /\ cur' = single_ids[vi]
    /\ outcome' = "running"
    /\ calls' = <<"fetch_video_metadata">>
    /\ appended' = {}
    /\ single_calls' = Append(single_calls, single_ids[vi])
    /\ pc' = "single_transcript"
    /\ UNCHANGED <<vi, video_arg, single_ids, single_sent, cfgErr, exitCode>>
    /\ UNCHANGED singleRest

\* The loop over video_ids is exhausted: main returns.
MainSingleReturn ==
    /\ pc = "single"
    /\ vi > Len(single_ids)
    /\ pc' = "returned"
    /\ UNCHANGED <<vi, cur, outcome, calls, appended, cfgErr, exitCode, singleVars>>
    /\ UNCHANGED singleRest

\* OnSingleFailure gone wrong: the error is logged and run_single_video
\* returns, so main goes on with the next video.
OnSingleFailureGoesOn(o) ==
    /\ outcome' = o
    /\ pc' = "single"
    /\ vi' = vi + 1
    /\ UNCHANGED exitCode

\* logger.error(...); raise SystemExit(1): nothing in main catches it. A
\* collaborator that raises (o is "error") ends the process in the same way:
\* no handler in run_single_video or main, the interpreter prints the
\* traceback and ends with status 1.
OnSingleFailure(o) ==
    /\ outcome' = o
    /\ pc' = "exited"
    /\ exitCode' = 1
    /\ UNCHANGED vi

\* transcript = get_transcript(video_id); "if not transcript: raise SystemExit(1)".
SingleGetTranscript ==
    /\ pc = "single_transcript"
    /\ calls' = Append(calls, "get_transcript")
    /\ \/ pc' = "single_savetranscript" /\ UNCHANGED <<outcome, vi, exitCode>>
       \/ OnSingleFailure("no_transcript")
       \/ OnSingleFailure("error")
    /\ UNCHANGED <<cur, appended, cfgErr, singleVars>>
    /\ UNCHANGED singleRest

\* save_transcript_local: the append succeeds, or fails and is logged.
SingleSaveTranscriptLocal ==
    /\ pc = "single_savetranscript"
    /\ calls' = Append(calls, "save_transcript_local")
    /\ \E written \in BOOLEAN :
        appended' = IF written THEN appended \cup {"transcript"} ELSE appended
    /\ pc' = "single_summarize"
    /\ UNCHANGED <<outcome, vi, exitCode>>
    /\ UNCHANGED <<cur, cfgErr, singleVars>>
    /\ UNCHANGED singleRest

\* summary = summarize_transcript(...); "if not summary: raise SystemExit(1)".
SingleSummarize ==
    /\ pc = "single_summarize"
    /\ calls' = Append(calls, "summarize_transcript")
    /\ \/ pc' = "single_savesummary" /\ UNCHANGED <<outcome, vi, exitCode>>
       \/ OnSingleFailure("no_summary")
       \/ OnSingleFailure("error")
    /\ UNCHANGED <<cur, appended, cfgErr, singleVars>>
    /\ UNCHANGED singleRest

\* save_summary_local: the append succeeds, or fails and is logged.
SingleSaveSummaryLocal ==
    /\ pc = "single_savesummary"
    /\ calls' = Append(calls, "save_summary_local")
    /\ \E written \in BOOLEAN :
        appended' = IF written THEN appended \cup {"summary"} ELSE appended
    /\ pc' = "single_deliver"
    /\ UNCHANGED <<outcome, vi, exitCode>>
    /\ UNCHANGED <<cur, cfgErr, singleVars>>
    /\ UNCHANGED singleRest

\* if send_video_summary(...): log, return to main's loop; else raise
\* SystemExit(1).
SingleDeliver ==
    /\ pc = "single_deliver"
    /\ calls' = Append(calls, "send_video_summary")
    /\ \E ok \in BOOLEAN :
        IF ok
        THEN /\ outcome' = "delivered"
             /\ single_sent' = Append(single_sent, cur)
             /\ vi' = vi + 1
             /\ pc' = "single"
             /\ UNCHANGED exitCode
        ELSE /\ OnSingleFailure("failed")
             /\ UNCHANGED single_sent
    /\ UNCHANGED <<cur, appended, cfgErr, video_arg, single_ids, single_calls>>
    /\ UNCHANGED singleRest

NextSingle ==
    \/ MainSingleStart
    \/ RunSingleVideoEntry
    \/ MainSingleReturn
    \/ SingleGetTranscript
    \/ SingleSaveTranscriptLocal
    \/ SingleSummarize
    \/ SingleSaveSummaryLocal
    \/ SingleDeliver

SpecSingle == InitSingle /\ [][NextSingle]_vars

\* C32: a single-video run calls neither load_processed nor save_processed
\* and changes neither the ledger file nor a ledger in memory; it calls
\* run_single_video for every id it comes to, in the ledger file or not, and
\* a successful delivery ends that call with nothing recorded.
C32_SingleModeLeavesLedger ==
    /\ [][store' = store /\ processed' = processed /\ loaded' = loaded]_vars
    /\ [](loadCalls = 0 /\ saveCalls = 0 /\ processed = {})
    /\ [][(pc = "single" /\ vi <= Len(single_ids)) =>
            /\ outcome' = "running"
            /\ cur' = single_ids[vi]
            /\ single_calls' = Append(single_calls, single_ids[vi])]_vars
    /\ [][(pc = "single_deliver" /\ outcome' = "delivered") =>
            /\ single_sent' = Append(single_sent, cur)
            /\ LoadProcessed(store') = LoadProcessed(store)]_vars

\* C32 witness: the run is over; it delivered a video that is in the ledger
\* file and one that is not, and the second is still not in it.
C32_Witness ==
    /\ pc = "returned"
    /\ \E i \in DOMAIN single_sent : single_sent[i] \in LoadProcessed(store)
    /\ \E i \in DOMAIN single_sent : single_sent[i] \notin LoadProcessed(store)

\* C33: run_single_video is called for the videos in the order given, each
\* after the one before it was delivered; the first video with no
\* transcript, no summary or a failed delivery ends the process with status
\* 1, after which nothing more happens; main returns only when every video
\* was delivered.
C33_SingleModeStopsAtFirstFailure ==
    /\ [](/\ Len(single_calls) <= Len(single_ids)
          /\ single_calls = SubSeq(single_ids, 1, Len(single_calls))
          /\ Len(single_sent) <= Len(single_calls)
          /\ single_sent = SubSeq(single_calls, 1, Len(single_sent))
          /\ Len(single_calls) - Len(single_sent) \in {0, 1})
    /\ [][(pc \in SinglePcs /\ outcome' \in FailureOutcomes) =>
            (pc' = "exited" /\ exitCode' = 1 /\ single_calls' = single_calls)]_vars
    /\ [](outcome \in FailureOutcomes =>
            (pc = "exited" /\ exitCode = 1 /\ Len(single_calls) = Len(single_sent) + 1))
    /\ [][(pc \notin {"exited", "returned"})]_vars
    /\ [](pc = "returned" => single_sent = single_ids)

\* C33 witness: of two videos the first was delivered; the second had no
\* summary and the process has ended with status 1.
C33_Witness ==
    /\ pc = "exited"
    /\ exitCode = 1
    /\ outcome = "no_summary"
    /\ Len(single_ids) = 2
    /\ single_sent = <<single_ids[1]>>
    /\ cur = single_ids[2]

\* C33 witness, a failure with a video left: the delivery of the first of two
\* videos failed, and run_single_video was never called for the second.
C33_WitnessVideoLeft ==
    /\ pc = "exited"
    /\ exitCode = 1
    /\ outcome = "failed"
    /\ Len(single_ids) = 2
    /\ single_calls = <<single_ids[1]>>
    /\ single_sent = <<>>

====
